---- MODULE Spec2Model ----
(***************************************************************************)
(* Verification model of the deterministic text-reconciliation layer of    *)
(* the medical transcription pipeline: the chunk overlap merger            *)
(* (medical_transcription/transcribe.py), the timestamp aligner            *)
(* (src/medical_transcription/alignment.py) and the post-processing        *)
(* pipeline (src/medical_transcription/postprocess.py).                    *)
(*                                                                         *)
(* A text is a sequence of one-character strings, so that slicing,         *)
(* searching and splitting are computed character by character as the      *)
(* Python code computes them.                                              *)
(***************************************************************************)
EXTENDS Integers, Sequences, FiniteSets, TLC

VARIABLES
    chunk_transcriptions,   \* merger: the argument of _call_gpt52_merge_chunks
    merged,                 \* merger: the accumulator `merged`
    mi,                     \* merger: the loop variable i (0-based chunk index)
    mpc,                    \* merger: position in _call_gpt52_merge_chunks
    chunk1,                 \* merger: first argument of the latest pairwise merge
    chunk2,                 \* merger: second argument of the latest pairwise merge
    stt_words,              \* aligner: the argument stt_words of align_timestamps
    final_text,             \* aligner: the argument final_text of align_timestamps
    aligned,                \* aligner: the list align_timestamps returned
    apc,                    \* aligner: "start" before the call, "done" after it
    gpt52_client,           \* post-processor: self.gpt52_client, "none" or "client"
    report,                 \* post-processor: the object self.report refers to
    report_id,              \* post-processor: the identity of that object
    returned,               \* post-processor: the reports process() has returned
    process_input,          \* post-processor: the argument text of process()
    use_llm,                \* post-processor: the argument use_llm of process()
    current_text,           \* post-processor: the local variable text of process()
    stage_d_input,          \* post-processor: the text _stage_d_semantic_fix was given
    llm,                    \* post-processor: what the client did in stage D, if called
    ppc,                    \* post-processor: position in process()
    transcription,          \* summary: the argument transcription of generate()
    client_answers,         \* summary: what self.client answers during this call
    sreport,                \* summary: the object self.report refers to
    raw_summary,            \* summary: the local variable raw_summary
    llm_validation,         \* summary: the local variable llm_validation
    corrected_summary,      \* summary: the local variable corrected_summary
    final_summary,          \* summary: the local variable final_summary
    generations,            \* summary: the number of calls of generate() so far
    spc,                    \* summary: position in generate()
    duration_ms,            \* chunking: the local variable duration_ms of split_audio
    chunks,                 \* chunking: the list chunks (what split_audio returns)
    start_ms,               \* chunking: the local variable start_ms
    chunk_num,              \* chunking: the local variable chunk_num
    cpc,                    \* chunking: position in split_audio
    credentials,            \* speech-to-text: whether key and region are both set
    attempt,                \* speech-to-text: the loop variable attempt
    retry_delay,            \* speech-to-text: the local variable retry_delay
    resp,                   \* speech-to-text: the latest response, if any
    posts,                  \* speech-to-text: the number of requests.post calls
    waits,                  \* speech-to-text: the arguments of time.sleep, in order
    rpc,                    \* speech-to-text: position in transcribe_with_timestamps
    clock,                  \* trace: what datetime.now() reads, in 1/100 s
    run_id,                 \* trace: self.run_id
    created_at,             \* trace: self.created_at
    steps,                  \* trace: self.steps
    _step_timers,           \* trace: self._step_timers
    add_step_calls,         \* trace: the number of add_step calls so far
    trace_file,             \* trace: the JSON document save() wrote, if any
    loaded,                 \* trace: the trace load() returned, if any
    tpc,                    \* trace: "recording", "saved" or "loaded"
    trace_given,            \* trace: whether process() was given the trace
    heap,                   \* threads: the PostProcessReport objects made so far
    processors,             \* threads: gpt52_client and report of each PostProcessor
    calls,                  \* threads: the locals and position of each process() call
    jobs,                   \* web backend: the jobs tracker
    class_add_step,         \* web backend: the attribute PipelineTrace.add_step
    runs                    \* web backend: the locals and position of each _run_pipeline

mergeVars == <<chunk_transcriptions, merged, mi, mpc, chunk1, chunk2>>

alignVars == <<stt_words, final_text, aligned, apc>>

postVars == <<gpt52_client, report, report_id, returned, process_input,
              use_llm, current_text, stage_d_input, llm, ppc>>

summaryVars == <<transcription, client_answers, sreport, raw_summary,
                 llm_validation, corrected_summary, final_summary, generations,
                 spc>>

splitVars == <<duration_ms, chunks, start_ms, chunk_num, cpc>>

coreVars == <<mergeVars, alignVars, postVars, summaryVars>>

sttVars == <<credentials, attempt, retry_delay, resp, posts, waits, rpc>>

traceVars == <<clock, run_id, created_at, steps, _step_timers, add_step_calls,
               trace_file, loaded, tpc, trace_given>>

threadVars == <<heap, processors, calls>>

webVars == <<jobs, class_add_step, runs>>

laterVars == <<splitVars, sttVars, traceVars, threadVars, webVars>>

besidesSplit == <<coreVars, sttVars, traceVars, threadVars, webVars>>

besidesStt == <<coreVars, splitVars, traceVars, threadVars, webVars>>

besidesTrace == <<coreVars, splitVars, sttVars, threadVars, webVars>>

laterNoTrace == <<splitVars, sttVars, threadVars, webVars>>

besidesThreads == <<coreVars, splitVars, sttVars, traceVars, webVars>>

besidesWeb == <<coreVars, splitVars, sttVars, traceVars, threadVars>>

vars == <<mergeVars, alignVars, postVars, summaryVars, laterVars>>

\* the components a specification does not exercise stay in these states
MergeIdle ==
    /\ chunk_transcriptions = <<>>
    /\ merged = <<>>
    /\ mi = 0
    /\ mpc = "idle"
    /\ chunk1 = <<>>
    /\ chunk2 = <<>>

AlignIdle ==
    /\ stt_words = <<>>
    /\ final_text = <<>>
    /\ aligned = <<>>
    /\ apc = "idle"

PostIdle ==
    /\ gpt52_client = "none"
    /\ report = <<>>
    /\ report_id = 0
    /\ returned = <<>>
    /\ process_input = <<>>
    /\ use_llm = FALSE
    /\ current_text = <<>>
    /\ stage_d_input = <<>>
    /\ llm = <<>>
    /\ ppc = "idle"

SummaryIdle ==
    /\ transcription = <<>>
    /\ client_answers = <<>>
    /\ sreport = <<>>
    /\ raw_summary = <<>>
    /\ llm_validation = <<>>
    /\ corrected_summary = <<>>
    /\ final_summary = <<>>
    /\ generations = 0
    /\ spc = "idle"

SplitIdle ==
    /\ duration_ms = 0
    /\ chunks = <<>>
    /\ start_ms = 0
    /\ chunk_num = 0
    /\ cpc = "idle"

CoreIdle == MergeIdle /\ AlignIdle /\ PostIdle /\ SummaryIdle

SttIdle ==
    /\ credentials = FALSE
    /\ attempt = 0
    /\ retry_delay = 0
    /\ resp = <<>>
    /\ posts = 0
    /\ waits = <<>>
    /\ rpc = "idle"

TraceIdle ==
    /\ clock = 0
    /\ run_id = <<>>
    /\ created_at = <<>>
    /\ steps = <<>>
    /\ _step_timers = <<>>
    /\ add_step_calls = 0
    /\ trace_file = <<>>
    /\ loaded = <<>>
    /\ tpc = "idle"
    /\ trace_given = FALSE

ThreadsIdle ==
    /\ heap = <<>>
    /\ processors = <<>>
    /\ calls = <<>>

WebIdle ==
    /\ jobs = <<>>
    /\ class_add_step = <<>>
    /\ runs = <<>>

LaterIdle == SplitIdle /\ SttIdle /\ TraceIdle /\ ThreadsIdle /\ WebIdle

----------------------------------------------------------------------------
(* Generic helpers for Python strings and lists                            *)

Min2(a, b) == IF a <= b THEN a ELSE b

Max2(a, b) == IF a >= b THEN a ELSE b

SetMax(S) == CHOOSE x \in S : \A y \in S : y <= x

SetMin(S) == CHOOSE x \in S : \A y \in S : x <= y

\* c repeated n times
Rep(c, n) == [k \in 1..n |-> c]

\* s[-n:] for n >= 1
LastN(s, n) == IF Len(s) > n THEN SubSeq(s, Len(s) - n + 1, Len(s)) ELSE s

\* s[:n]
FirstN(s, n) == IF Len(s) > n THEN SubSeq(s, 1, n) ELSE s

\* s[n:] for n >= 0
DropN(s, n) == IF n >= Len(s) THEN <<>> ELSE SubSeq(s, n + 1, Len(s))

\* s[p : p + Len(pat)] == pat, p 0-based
MatchAt(s, p, pat) ==
    /\ p + Len(pat) <= Len(s)
    /\ \A k \in 1..Len(pat) : s[p + k] = pat[k]

\* str.find: the lowest 0-based index of pat in s, -1 when absent
Find(s, pat) ==
    LET hits == {p \in 0..(Len(s) - Len(pat)) : MatchAt(s, p, pat)}
    IN  IF hits = {} THEN -1 ELSE SetMin(hits)

\* the characters str.strip() removes
Whitespace == {" ", "\t", "\n", "\r"}

\* str.strip()
Strip(s) ==
    LET keep == {k \in 1..Len(s) : s[k] \notin Whitespace}
    IN  IF keep = {} THEN <<>> ELSE SubSeq(s, SetMin(keep), SetMax(keep))

\* the elements of a finite set of integers in increasing order
RECURSIVE SortedSeq(_)
SortedSeq(S) ==
    IF S = {} THEN <<>>
    ELSE LET m == SetMin(S) IN <<m>> \o SortedSeq(S \ {m})

\* re.split on a character class: the pieces between separator characters
SplitOn(s, seps) ==
    LET cuts == SortedSeq({k \in 1..Len(s) : s[k] \in seps})
        n    == Len(cuts)
        lo(j) == IF j = 1 THEN 1 ELSE cuts[j - 1] + 1
        hi(j) == IF j = n + 1 THEN Len(s) ELSE cuts[j] - 1
    IN  [j \in 1..(n + 1) |-> SubSeq(s, lo(j), hi(j))]

----------------------------------------------------------------------------
(* Chunk Overlap Merger: MedicalTranscriber._find_overlap,                 *)
(* _merge_two_chunks_algorithmic and _call_gpt52_merge_chunks              *)

min_overlap == 50

max_overlap == 800

SentenceWindow == 1500

MinSentenceLen == 20

SentenceCount == 10

MinMatchLen == 30

SimilarityNum == 7

SimilarityDen == 10

SentenceSeparators == {"\n", ".", "?", "!"}

\* end1[-k:] == start2[:k]
SuffixIsPrefix(end1, start2, k) ==
    \A j \in 1..k : end1[Len(end1) - k + j] = start2[j]

\* the loop stopping at the first matching size instead of keeping the last
BestExactOverlap_First(text1, text2) ==
    LET end1   == LastN(text1, max_overlap)
        start2 == FirstN(text2, max_overlap)
        sizes  == {k \in min_overlap..Min2(Len(end1), Len(start2)) :
                     SuffixIsPrefix(end1, start2, k)}
    IN  IF sizes = {} THEN 0 ELSE SetMin(sizes)

\* the loop over overlap_size: the last (largest) matching size, 0 when none
BestExactOverlap(text1, text2) ==
    LET end1   == LastN(text1, max_overlap)
        start2 == FirstN(text2, max_overlap)
        sizes  == {k \in min_overlap..Min2(Len(end1), Len(start2)) :
                     SuffixIsPrefix(end1, start2, k)}
    IN  IF sizes = {} THEN 0 ELSE SetMax(sizes)

LongEnough(s) == Len(s) > MinSentenceLen

\* re.split(r'[\n.?!]', window), stripped, kept when longer than 20 characters
Sentences(window) ==
    LET pieces   == SplitOn(window, SentenceSeparators)
        stripped == [k \in 1..Len(pieces) |-> Strip(pieces[k])]
    IN  SelectSeq(stripped, LongEnough)

\* sum(1 for a, b in zip(s1, s2) if a == b)
CommonPositions(s1, s2) ==
    Cardinality({k \in 1..Min2(Len(s1), Len(s2)) : s1[k] = s2[k]})

\* common / max(len(s1), len(s2)) > 0.7
Similar(s1, s2) ==
    SimilarityDen * CommonPositions(s1, s2)
        > SimilarityNum * Max2(Len(s1), Len(s2))

\* the sentence-level fallback: the position returned by the first pair, in
\* iteration order, that passes every test; 0 when the loops run out
FuzzyOverlap(text1, text2) ==
    LET sentences1 == Sentences(LastN(text1, SentenceWindow))
        sentences2 == Sentences(FirstN(text2, SentenceWindow))
        last1  == LastN(sentences1, SentenceCount)
        first2 == FirstN(sentences2, SentenceCount)
        \* reversed(last1): rank 1 is the last sentence
        s1(r) == last1[Len(last1) - r + 1]
        hits == {h \in (1..Len(last1)) \X (1..Len(first2)) :
                   /\ Len(s1(h[1])) > MinMatchLen
                   /\ Len(first2[h[2]]) > MinMatchLen
                   /\ Similar(s1(h[1]), first2[h[2]])
                   /\ Find(text2, first2[h[2]]) > 0}
        first == CHOOSE h \in hits :
                   \A g \in hits : \/ h[1] < g[1]
                                   \/ (h[1] = g[1] /\ h[2] <= g[2])
    IN  IF hits = {} THEN 0 ELSE Find(text2, first2[first[2]])

_find_overlap(text1, text2) ==
    LET best_overlap == BestExactOverlap(text1, text2)
    IN  IF best_overlap = 0 THEN FuzzyOverlap(text1, text2) ELSE best_overlap

\* the merge cutting one character short of the overlap
_merge_two_chunks_algorithmic_OffByOne(c1, c2) ==
    LET overlap == _find_overlap(c1, c2)
    IN  IF overlap > 0
        THEN c1 \o <<"\n">> \o DropN(c2, overlap - 1)
        ELSE c1 \o <<"\n">> \o c2

_merge_two_chunks_algorithmic(c1, c2) ==
    LET overlap == _find_overlap(c1, c2)
    IN  IF overlap > 0
        THEN c1 \o <<"\n">> \o DropN(c2, overlap)
        ELSE c1 \o <<"\n">> \o c2

(* _call_gpt52_merge_chunks as a state machine: "start" is the call,       *)
(* "loop" the for loop over the remaining chunks, "done" the return.       *)

\* len(chunk_transcriptions) == 1: return chunk_transcriptions[0]
MergeSingle ==
    /\ mpc = "start"
    /\ Len(chunk_transcriptions) = 1
    /\ merged' = chunk_transcriptions[1]
    /\ mpc' = "done"
    /\ UNCHANGED <<chunk_transcriptions, mi, chunk1, chunk2>>
    /\ UNCHANGED <<alignVars, postVars, summaryVars, laterVars>>

\* merged = chunk_transcriptions[0], then enter the loop with i = 1
MergeBegin ==
    /\ mpc = "start"
    /\ Len(chunk_transcriptions) > 1
    /\ merged' = chunk_transcriptions[1]
    /\ mi' = 1
    /\ mpc' = "loop"
    /\ UNCHANGED <<chunk_transcriptions, chunk1, chunk2>>
    /\ UNCHANGED <<alignVars, postVars, summaryVars, laterVars>>

\* one iteration: merged = _merge_two_chunks_algorithmic(merged, chunks[i])
MergeNext ==
    /\ mpc = "loop"
    /\ mi < Len(chunk_transcriptions)
    /\ chunk1' = merged
    /\ chunk2' = chunk_transcriptions[mi + 1]
    /\ merged' = _merge_two_chunks_algorithmic(merged, chunk_transcriptions[mi + 1])
    /\ mi' = mi + 1
    /\ UNCHANGED <<chunk_transcriptions, mpc>>
    /\ UNCHANGED <<alignVars, postVars, summaryVars, laterVars>>

\* the loop is exhausted: return merged
MergeReturn ==
    /\ mpc = "loop"
    /\ mi = Len(chunk_transcriptions)
    /\ mpc' = "done"
    /\ UNCHANGED <<chunk_transcriptions, merged, mi, chunk1, chunk2>>
    /\ UNCHANGED <<alignVars, postVars, summaryVars, laterVars>>

(* Chunk texts the merger is run on.  A first chunk is a pad followed by a *)
(* tail, a second chunk is a head, a body and a pad; tails and bodies are  *)
(* drawn from the same pool, so that the end of the first chunk may or may *)
(* not reappear at the start of the second.                                *)

PadLen == 10

ScenarioOverlap == 40

MaxChunks == 2

\* lengths around every threshold of _find_overlap
MarkedLens ==
    {MinMatchLen + 1, ScenarioOverlap, min_overlap - 1, min_overlap,
     max_overlap, max_overlap + 1}

PlainLens == {ScenarioOverlap, min_overlap + 1, max_overlap + 1}

\* a string of length n none of whose proper suffixes is a prefix of it
Marked(n) == <<"b">> \o Rep("a", n - 1)

\* a string of length n every suffix of which is a prefix of it
Plain(n) == Rep("a", n)

SharedPool == {Marked(n) : n \in MarkedLens} \cup {Plain(n) : n \in PlainLens}

FirstChunks == {p \o t : p \in {<<>>, Rep("c", PadLen)}, t \in SharedPool}

SecondChunks ==
    {h \o t \o p : h \in {<<>>, Rep("c", PadLen) \o <<".", " ">>},
                   t \in SharedPool,
                   p \in {<<>>, Rep("d", PadLen)}}

LaterChunks == {Rep("d", PadLen) \o <<"!">> \o Plain(min_overlap)}

ChunksAt(k) == IF k = 1 THEN FirstChunks
               ELSE IF k = 2 THEN SecondChunks ELSE LaterChunks

\* the lists of exactly n chunks
RECURSIVE ChunkListsOfLen(_)
ChunkListsOfLen(n) ==
    IF n = 0 THEN {<<>>}
    ELSE {Append(cs, c) : cs \in ChunkListsOfLen(n - 1), c \in ChunksAt(n)}

ChunkLists == UNION {ChunkListsOfLen(n) : n \in 1..MaxChunks}

InitMerge ==
    /\ chunk_transcriptions \in ChunkLists
    /\ merged = <<>>
    /\ mi = 0
    /\ mpc = "start"
    /\ chunk1 = <<>>
    /\ chunk2 = <<>>
    /\ AlignIdle
    /\ PostIdle
    /\ SummaryIdle
    /\ LaterIdle

NextMerge == MergeSingle \/ MergeBegin \/ MergeNext \/ MergeReturn

SpecMerge == InitMerge /\ [][NextMerge]_vars

----------------------------------------------------------------------------
(* Timestamp Aligner: src/medical_transcription/alignment.py               *)
(*                                                                         *)
(* An optional value (Python None or a value) is the empty sequence or a   *)
(* one-element sequence.                                                   *)

None == <<>>

Some(v) == <<v>>

\* str.splitlines() breaks; blank lines are skipped by every caller, so a
\* two-character break and a trailing break make no difference
LineBreaks == {"\n", "\r"}

NonEmpty(s) == s # <<>>

\* str.split(): the maximal runs of non-whitespace characters
SplitWords(line) == SelectSeq(SplitOn(line, Whitespace), NonEmpty)

\* [l.strip() for l in text.splitlines() if l.strip()]
NonBlankLines(text) ==
    LET raw      == SplitOn(text, LineBreaks)
        stripped == [k \in 1..Len(raw) |-> Strip(raw[k])]
    IN  SelectSeq(stripped, NonEmpty)

\* SPEAKER_LABEL_RE.match(line), r"\[([^\]]+)\]:\s*": None, or the label
\* (group 1) and the end offset of the match
SpeakerLabelMatch(line) ==
    LET closers == {k \in 1..Len(line) : line[k] = "]"}
        close   == SetMin(closers)
        after   == {k \in (close + 2)..Len(line) : line[k] \notin Whitespace}
    IN  IF /\ Len(line) >= 1
           /\ line[1] = "["
           /\ closers # {}
           /\ close >= 3
           /\ close + 1 <= Len(line)
           /\ line[close + 1] = ":"
        THEN Some([label |-> SubSeq(line, 2, close - 1),
                   end   |-> IF after = {} THEN Len(line)
                             ELSE SetMin(after) - 1])
        ELSE None

\* the line with a leading speaker label removed: line[m.end():]
LineBody(line) ==
    IF SpeakerLabelMatch(line) = None THEN line
    ELSE DropN(line, SpeakerLabelMatch(line)[1].end)

\* _strip_speaker_labels, accumulated line by line: the flat word list and
\* the {label, before_word_index} records (0-based word index)
RECURSIVE StripLines(_, _, _)
StripLines(lines, words, labels) ==
    IF lines = <<>> THEN [words |-> words, labels |-> labels]
    ELSE LET line == Head(lines)
             m    == SpeakerLabelMatch(line)
         IN  StripLines(Tail(lines),
                        words \o SplitWords(LineBody(line)),
                        IF m = None THEN labels
                        ELSE Append(labels, [label |-> m[1].label,
                                             before_word_index |-> Len(words)]))

_strip_speaker_labels(text) == StripLines(NonBlankLines(text), <<>>, <<>>)

\* code points of the characters used in words
CodePoint(c) ==
    CASE c = "#" -> 35
      [] c = "%" -> 37
      [] c = "," -> 44
      [] c = "." -> 46
      [] c = ":" -> 58
      [] c = "D" -> 68
      [] c = "P" -> 80
      [] c = "X" -> 88
      [] c = "[" -> 91
      [] c = "]" -> 93
      [] c = "x" -> 120
      [] c = "y" -> 121

\* the character class of _normalize_word lists single characters and the
\* range \'-— , from the apostrophe (U+0027) to the em dash (U+2014)
ClassRangeLo == 39

ClassRangeHi == 8212

ClassSingles == {".", ",", ";", ":", "!", "?", "\"", "(", ")"}

InNormalizeClass(c) ==
    \/ c \in ClassSingles
    \/ (ClassRangeLo <= CodePoint(c) /\ CodePoint(c) <= ClassRangeHi)

\* str.lower() on one character
LowerChar(c) == IF c = "X" THEN "x" ELSE IF c = "D" THEN "d"
                ELSE IF c = "P" THEN "p" ELSE c

NotInClass(c) == ~InNormalizeClass(c)

\* re.sub(class, "", w).strip().lower()
_normalize_word(w) ==
    LET kept == Strip(SelectSeq(w, NotInClass))
    IN  [k \in 1..Len(kept) |-> LowerChar(kept[k])]


(* difflib.SequenceMatcher(None, a, b, autojunk=False) with hashable       *)
(* elements and no junk.  Indices are 0-based as in Python: a[i] is the    *)
(* TLA+ element a[i + 1].                                                  *)

\* the length of the longest common run starting at a[i], b[j] inside
\* a[..ahi], b[..bhi]
RECURSIVE RunLength(_, _, _, _, _, _)
RunLength(a, b, i, j, ahi, bhi) ==
    IF i < ahi /\ j < bhi /\ a[i + 1] = b[j + 1]
    THEN 1 + RunLength(a, b, i + 1, j + 1, ahi, bhi)
    ELSE 0

\* find_longest_match(alo, ahi, blo, bhi): the longest block, of those the
\* one starting earliest in a, of those the one starting earliest in b;
\* <<alo, blo, 0>> when nothing matches
find_longest_match(a, b, alo, ahi, blo, bhi) ==
    LET starts == (alo..(ahi - 1)) \X (blo..(bhi - 1))
        size(p) == RunLength(a, b, p[1], p[2], ahi, bhi)
        longest == SetMax({0} \cup {size(p) : p \in starts})
        hits == {p \in starts : size(p) = longest}
        i == SetMin({p[1] : p \in hits})
        j == SetMin({p[2] : p \in {q \in hits : q[1] = i}})
    IN  IF longest = 0 THEN <<alo, blo, 0>>
        ELSE <<i, j, longest>>

\* get_matching_blocks(): the blocks <<i, j, k>> found by splitting around the
\* longest match and recursing into the pieces to its left and to its right
RECURSIVE MatchingBlocks(_, _, _, _, _, _)
MatchingBlocks(a, b, alo, ahi, blo, bhi) ==
    LET x == find_longest_match(a, b, alo, ahi, blo, bhi)
        i == x[1]
        j == x[2]
        k == x[3]
    IN  IF k = 0 THEN {}
        ELSE {x}
             \cup (IF alo < i /\ blo < j
                   THEN MatchingBlocks(a, b, alo, i, blo, j) ELSE {})
             \cup (IF i + k < ahi /\ j + k < bhi
                   THEN MatchingBlocks(a, b, i + k, ahi, j + k, bhi) ELSE {})

get_matching_blocks(a, b) == MatchingBlocks(a, b, 0, Len(a), 0, Len(b))

\* gpt_to_stt: for each matched gpt index the stt index of its block (0-based)
GptToStt(gpt_norm, stt_norm) ==
    LET blocks == get_matching_blocks(gpt_norm, stt_norm)
        pairs  == UNION {{<<blk[1] + t, blk[2] + t>> : t \in 0..(blk[3] - 1)} :
                            blk \in blocks}
    IN  [g \in {p[1] : p \in pairs} |-> (CHOOSE p \in pairs : p[1] = g)[2]]

DefaultWordMs == 200

\* the annotated list built from the matched words only
AssignTimestamps_DropUnmatched(stt, gpt_words) ==
    LET stt_norm == [k \in 1..Len(stt) |-> _normalize_word(stt[k].word)]
        gpt_norm == [k \in 1..Len(gpt_words) |-> _normalize_word(gpt_words[k])]
        gpt_to_stt == GptToStt(gpt_norm, stt_norm)
        matched == SortedSeq({k \in 1..Len(gpt_words) : (k - 1) \in DOMAIN gpt_to_stt})
    IN  [m \in 1..Len(matched) |->
            LET stt_w == stt[gpt_to_stt[matched[m] - 1] + 1]
            IN  [word |-> gpt_words[matched[m]],
                 start_ms |-> Some(stt_w.offset_ms),
                 end_ms |-> Some(stt_w.offset_ms + stt_w.duration_ms),
                 is_interpolated |-> FALSE]]

\* the annotated list before interpolation: matched words copy the STT
\* word's offset and offset + duration, the others are placeholders
AssignTimestamps(stt, gpt_words) ==
    LET stt_norm == [k \in 1..Len(stt) |-> _normalize_word(stt[k].word)]
        gpt_norm == [k \in 1..Len(gpt_words) |-> _normalize_word(gpt_words[k])]
        gpt_to_stt == GptToStt(gpt_norm, stt_norm)
    IN  [k \in 1..Len(gpt_words) |->
            IF (k - 1) \in DOMAIN gpt_to_stt
            THEN LET stt_w == stt[gpt_to_stt[k - 1] + 1]
                 IN  [word |-> gpt_words[k],
                      start_ms |-> Some(stt_w.offset_ms),
                      end_ms |-> Some(stt_w.offset_ms + stt_w.duration_ms),
                      is_interpolated |-> FALSE]
            ELSE [word |-> gpt_words[k],
                  start_ms |-> None,
                  end_ms |-> None,
                  is_interpolated |-> TRUE]]

\* _interpolate_gaps: each maximal run i..j-1 of placeholders (1-based here)
\* is spread evenly between left_end and right_start; int() truncates a
\* non-negative value, which is the floor of the exact quotient
_interpolate_gaps(annotated) ==
    LET n == Len(annotated)
        IsGap(p) == annotated[p].start_ms = None
        GapStart(p) == SetMin({i \in 1..p : \A q \in i..p : IsGap(q)})
        GapEnd(p) == SetMax({j \in (p + 1)..(n + 1) : \A q \in p..(j - 1) : IsGap(q)})
        Filled(p) ==
            LET i == GapStart(p)
                j == GapEnd(p)
                left_end == IF i > 1 /\ annotated[i - 1].end_ms # None
                            THEN annotated[i - 1].end_ms[1] ELSE 0
                gap_count == j - i
                right_start == IF j <= n /\ annotated[j].start_ms # None
                               THEN annotated[j].start_ms[1]
                               ELSE left_end + gap_count * DefaultWordMs
                duration == right_start - left_end
                k == p - i
                At(m) == IF duration <= 0 THEN left_end
                         ELSE (left_end * gap_count + m * duration) \div gap_count
            IN  [annotated[p] EXCEPT !.start_ms = Some(At(k)),
                                     !.end_ms = Some(At(k + 1))]
    IN  [p \in 1..n |-> IF IsGap(p) THEN Filled(p) ELSE annotated[p]]

\* label_positions: a dict keyed by before_word_index, a later label with
\* the same index replacing an earlier one
LabelAt(labels, idx) ==
    LET at == {k \in 1..Len(labels) : labels[k].before_word_index = idx}
    IN  IF at = {} THEN None ELSE Some(labels[SetMax(at)].label)

\* current_speaker after the words 0..idx have been walked
CurrentSpeaker(labels, idx) ==
    LET seen == {i \in 0..idx : LabelAt(labels, i) # None}
    IN  IF seen = {} THEN None ELSE LabelAt(labels, SetMax(seen))

\* the word counts of the non-blank lines, recounted from the text
LineWordCounts(text) ==
    LET lines == NonBlankLines(text)
    IN  [k \in 1..Len(lines) |-> Len(SplitWords(LineBody(lines[k])))]

\* the 0-based index of the line whose words cover word number idx (0-based),
\* None when the recount runs out of words first
RECURSIVE LineOfWord(_, _, _)
LineOfWord(counts, idx, line_idx) ==
    IF counts = <<>> THEN None
    ELSE IF idx < Head(counts) THEN Some(line_idx)
    ELSE LineOfWord(Tail(counts), idx - Head(counts), line_idx + 1)

\* _attach_speakers: speaker and line_index are set on the words the line
\* walk reaches; a word it does not reach keeps neither key
_attach_speakers(annotated, labels, text) ==
    LET counts == LineWordCounts(text)
    IN  [p \in 1..Len(annotated) |->
            LET line == LineOfWord(counts, p - 1, 0)
            IN  IF line = None
                THEN [word |-> annotated[p].word,
                      start_ms |-> annotated[p].start_ms,
                      end_ms |-> annotated[p].end_ms,
                      is_interpolated |-> annotated[p].is_interpolated,
                      speaker |-> None,
                      line_index |-> None]
                ELSE [word |-> annotated[p].word,
                      start_ms |-> annotated[p].start_ms,
                      end_ms |-> annotated[p].end_ms,
                      is_interpolated |-> annotated[p].is_interpolated,
                      speaker |-> CurrentSpeaker(labels, p - 1),
                      line_index |-> line]]

\* the fallback with the speaker labels ignored
_build_fallback_NoSpeaker(gpt_words, labels) ==
    [p \in 1..Len(gpt_words) |->
        [word |-> gpt_words[p],
         start_ms |-> None,
         end_ms |-> None,
         speaker |-> None,
         is_interpolated |-> TRUE,
         line_index |-> Some(0)]]

\* _build_fallback: every word without timestamps
_build_fallback(gpt_words, labels) ==
    [p \in 1..Len(gpt_words) |->
        [word |-> gpt_words[p],
         start_ms |-> None,
         end_ms |-> None,
         speaker |-> CurrentSpeaker(labels, p - 1),
         is_interpolated |-> TRUE,
         line_index |-> Some(0)]]

align_timestamps(stt, text) ==
    LET parsed == _strip_speaker_labels(text)
        gpt_words == parsed.words
        speaker_labels == parsed.labels
    IN  IF gpt_words = <<>> \/ stt = <<>>
        THEN _build_fallback(gpt_words, speaker_labels)
        ELSE _attach_speakers(
                 _interpolate_gaps(AssignTimestamps(stt, gpt_words)),
                 speaker_labels, text)


(* align_timestamps as a state machine: one call on the given inputs.      *)

AlignTimestamps ==
    /\ apc = "start"
    /\ aligned' = align_timestamps(stt_words, final_text)
    /\ apc' = "done"
    /\ UNCHANGED <<stt_words, final_text>>
    /\ UNCHANGED <<mergeVars, postVars, summaryVars, laterVars>>

(* Inputs of the aligner: STT word lists with non-decreasing offsets, and  *)
(* final texts made of fragments joined by newlines.                       *)

MaxSttWords == 2

MaxFragments == 2

\* <<offset_ms, duration_ms>>; the first word outlasts the start of the next
SttTimes == {<<0, 1000>>, <<500, 100>>, <<1000, 300>>}

SttTexts == {<<"x">>, <<"#">>}

SttWordPool ==
    {[word |-> w, offset_ms |-> t[1], duration_ms |-> t[2]] :
        w \in SttTexts, t \in SttTimes}

RECURSIVE SttListsOfLen(_)
SttListsOfLen(n) ==
    IF n = 0 THEN {<<>>}
    ELSE {Append(ws, w) : ws \in SttListsOfLen(n - 1), w \in SttWordPool}

OffsetsNonDecreasing(ws) ==
    \A k \in 1..(Len(ws) - 1) : ws[k].offset_ms <= ws[k + 1].offset_ms

SttLists ==
    {ws \in UNION {SttListsOfLen(n) : n \in 0..MaxSttWords} :
        OffsetsNonDecreasing(ws)}

TextFragments ==
    {<<"[", "D", "]", ":", " ", "x", " ", "#">>,
     <<"x", " ", "#", " ", "x">>,
     <<" ", "\n", "[", "P", "]", ":", "#">>,
     <<"[", "D", "]", " ", "y", ",">>,
     <<"[", "P", "]", ":">>}

RECURSIVE TextsOfLen(_)
TextsOfLen(n) ==
    IF n = 0 THEN {<<>>}
    ELSE {(IF t = <<>> THEN f ELSE t \o <<"\n">> \o f) :
              t \in TextsOfLen(n - 1), f \in TextFragments}

FinalTexts == UNION {TextsOfLen(n) : n \in 0..MaxFragments}

InitAlign ==
    /\ stt_words \in SttLists
    /\ final_text \in FinalTexts
    /\ aligned = <<>>
    /\ apc = "start"
    /\ MergeIdle
    /\ PostIdle
    /\ SummaryIdle
    /\ LaterIdle

NextAlign == AlignTimestamps

SpecAlign == InitAlign /\ [][NextAlign]_vars

----------------------------------------------------------------------------
(* Pipeline trace: PipelineTrace (trace.py)                                *)

\* A Python value: its type, and the string, the number, the keys and the
\* items it holds (a float is held in 1/100, a bool as 0 or 1).  Texts
\* are sequences of characters, every other string is written whole.
PyValue(py, s, n, keys, items) ==
    [py |-> py, s |-> s, n |-> n, keys |-> keys, items |-> items]

PyStr(s) == PyValue("str", s, 0, <<>>, <<>>)

PyInt(n) == PyValue("int", "", n, <<>>, <<>>)

PyFloat(n) == PyValue("float", "", n, <<>>, <<>>)

PyBool(b) == PyValue("bool", "", IF b THEN 1 ELSE 0, <<>>, <<>>)

PyNone == PyValue("NoneType", "", 0, <<>>, <<>>)

PyList(items) == PyValue("list", "", 0, <<>>, items)

PyTuple(items) == PyValue("tuple", "", 0, <<>>, items)

PyDict(keys, items) == PyValue("dict", "", 0, keys, items)

\* d[key] for a key the dict has, d.get(key, default) otherwise
DictGet(d, key, default) ==
    IF \E k \in 1..Len(d.keys) : d.keys[k] = key
    THEN d.items[CHOOSE k \in 1..Len(d.keys) : d.keys[k] = key]
    ELSE default

\* json.dump: the JSON document of a Python value.  JSON has strings,
\* numbers with or without a fraction, true, false, null, arrays and
\* objects; a list and a tuple both become an array.
RECURSIVE json_dump(_)
json_dump(v) ==
    CASE v.py = "str" -> PyValue("string", v.s, 0, <<>>, <<>>)
      [] v.py = "int" -> PyValue("integer", "", v.n, <<>>, <<>>)
      [] v.py = "float" -> PyValue("real", "", v.n, <<>>, <<>>)
      [] v.py = "bool" ->
            PyValue(IF v.n = 1 THEN "true" ELSE "false", "", 0, <<>>, <<>>)
      [] v.py = "NoneType" -> PyValue("null", "", 0, <<>>, <<>>)
      [] v.py \in {"list", "tuple"} ->
            PyValue("array", "", 0, <<>>,
                    [k \in 1..Len(v.items) |-> json_dump(v.items[k])])
      [] v.py = "dict" ->
            PyValue("object", "", 0, v.keys,
                    [k \in 1..Len(v.items) |-> json_dump(v.items[k])])

\* json.load: the Python value of a JSON document; an array becomes a list
RECURSIVE json_load(_)
json_load(j) ==
    CASE j.py = "string" -> PyStr(j.s)
      [] j.py = "integer" -> PyInt(j.n)
      [] j.py = "real" -> PyFloat(j.n)
      [] j.py = "true" -> PyBool(TRUE)
      [] j.py = "false" -> PyBool(FALSE)
      [] j.py = "null" -> PyNone
      [] j.py = "array" ->
            PyList([k \in 1..Len(j.items) |-> json_load(j.items[k])])
      [] j.py = "object" ->
            PyDict(j.keys, [k \in 1..Len(j.items) |-> json_load(j.items[k])])

STEP_DEFINITIONS ==
    <<<<"step_0_chunking", "Audio Chunking">>,
      <<"step_1_pure", "Pure Transcription (no speakers)">>,
      <<"step_2_diarized", "Diarized Transcription (with speakers)">>,
      <<"step_3_merged", "GPT-5.2 Merge (per chunk)">>,
      <<"step_4_chunks_merged", "Chunk Merging">>,
      <<"step_5a_normalized", "Post-Process: Normalization">>,
      <<"step_5b_spelling", "Post-Process: Spelling Fixes">>,
      <<"step_5c_deduplicated", "Post-Process: Deduplication">>,
      <<"step_5d_semantic", "Post-Process: Semantic Fix (LLM)">>,
      <<"step_5e_validated", "Post-Process: Validation (Final)">>,
      <<"step_6a_summary_draft", "Medical Summary: Generation (LLM)">>,
      <<"step_6b_summary_validation", "Medical Summary: Validation">>>>

\* STEP_NAME_MAP.get(step_id, step_id)
STEP_NAME_MAP(step_id) ==
    IF \E k \in 1..Len(STEP_DEFINITIONS) : STEP_DEFINITIONS[k][1] = step_id
    THEN STEP_DEFINITIONS[CHOOSE k \in 1..Len(STEP_DEFINITIONS) :
                              STEP_DEFINITIONS[k][1] = step_id][2]
    ELSE step_id

DigitSeq == <<"0", "1", "2", "3", "4", "5", "6", "7", "8", "9">>

DigitValue(c) == (CHOOSE k \in 1..Len(DigitSeq) : DigitSeq[k] = c) - 1

\* str(n) for a natural number n
RECURSIVE NatToStr(_)
NatToStr(n) ==
    IF n < 10 THEN <<DigitSeq[n + 1]>>
    ELSE NatToStr(n \div 10) \o <<DigitSeq[(n % 10) + 1]>>

\* datetime.now().isoformat() and strftime("%Y%m%d_%H%M%S"): the reading
\* of the clock written out, to 1/100 s and to the second
isoformat(now) == NatToStr(now)

strftime(now) == NatToStr(now \div 100)

StepSnapshot(step_id, step_name, text, chunk_index, timestamp, duration_seconds, metadata) ==
    [step_id |-> step_id, step_name |-> step_name, text |-> text,
     chunk_index |-> chunk_index, timestamp |-> timestamp,
     duration_seconds |-> duration_seconds, metadata |-> metadata]

char_count(s) == Len(s.text.s)

\* len(text.splitlines()) for a text whose only line break is "\n"
line_count(s) ==
    LET text == s.text.s
    IN  IF text = <<>> THEN 0
        ELSE Cardinality({k \in 1..Len(text) : text[k] = "\n"})
             + (IF text[Len(text)] = "\n" THEN 0 ELSE 1)

get_num_chunks(the_steps) ==
    Cardinality({the_steps[k].chunk_index.n :
                    k \in {i \in 1..Len(the_steps) :
                              the_steps[i].chunk_index.py # "NoneType"}})

to_dict(the_run_id, the_created_at, the_steps) ==
    PyDict(<<"run_id", "created_at", "num_chunks", "total_steps", "steps">>,
           <<PyStr(the_run_id), PyStr(the_created_at),
             PyInt(get_num_chunks(the_steps)), PyInt(Len(the_steps)),
             PyList([k \in 1..Len(the_steps) |->
                 PyDict(<<"step_id", "step_name", "chunk_index", "char_count",
                          "line_count", "timestamp", "duration_seconds",
                          "metadata", "text">>,
                        <<the_steps[k].step_id, the_steps[k].step_name,
                          the_steps[k].chunk_index,
                          PyInt(char_count(the_steps[k])),
                          PyInt(line_count(the_steps[k])),
                          the_steps[k].timestamp,
                          the_steps[k].duration_seconds,
                          the_steps[k].metadata, the_steps[k].text>>)])>>)

\* the trace PipelineTrace.load builds from the parsed document: cls() and
\* then run_id, created_at and the steps of the document
load(data, now) ==
    LET fresh == [run_id |-> PyStr(strftime(now)),
                  created_at |-> PyStr(isoformat(now)), steps |-> <<>>]
        listed == DictGet(data, "steps", PyNone).items
    IN  [fresh EXCEPT
            !.run_id = DictGet(data, "run_id", PyNone),
            !.created_at = DictGet(data, "created_at", PyNone),
            !.steps = [k \in 1..Len(listed) |->
                StepSnapshot(DictGet(listed[k], "step_id", PyNone),
                             DictGet(listed[k], "step_name", PyNone),
                             DictGet(listed[k], "text", PyNone),
                             DictGet(listed[k], "chunk_index", PyNone),
                             DictGet(listed[k], "timestamp", PyStr(<<>>)),
                             DictGet(listed[k], "duration_seconds", PyFloat(0)),
                             DictGet(listed[k], "metadata", PyDict(<<>>, <<>>)))]]

\* add_step: the list self.steps after the call, for a step that took
\* duration (0 when no timer was started for it)
add_step(the_steps, now, duration, step_id, text, chunk_index, metadata) ==
    Append(the_steps,
           StepSnapshot(PyStr(step_id), PyStr(STEP_NAME_MAP(step_id)),
                        PyStr(text), chunk_index, PyStr(isoformat(now)),
                        PyFloat(duration),
                        IF metadata = PyNone \/ metadata.keys = <<>>
                        THEN PyDict(<<>>, <<>>) ELSE metadata))

----------------------------------------------------------------------------
(* Post-processing pipeline: src/medical_transcription/postprocess.py       *)
(*                                                                         *)
(* A Hebrew letter is written as the one-character string that spells its  *)
(* name ("alef" is U+05D0, "mem_sofit" the final form U+05DD, and so on);   *)
(* every other character stands for itself.                                *)

Digits == {"0", "1", "2", "3", "4", "5", "6", "7", "8", "9"}

UpperSeq == <<"A", "B", "C", "D", "E", "F", "G", "H", "I", "J", "K", "L", "M",
              "N", "O", "P", "Q", "R", "S", "T", "U", "V", "W", "X", "Y", "Z">>

LowerSeq == <<"a", "b", "c", "d", "e", "f", "g", "h", "i", "j", "k", "l", "m",
              "n", "o", "p", "q", "r", "s", "t", "u", "v", "w", "x", "y", "z">>

UpperLetters == {UpperSeq[k] : k \in 1..Len(UpperSeq)}

LowerLetters == {LowerSeq[k] : k \in 1..Len(LowerSeq)}

HebrewLetters ==
    {"alef", "bet", "gimel", "dalet", "he", "vav",
     "zayin", "het", "tet", "yod", "kaf_sofit", "kaf",
     "lamed", "mem_sofit", "mem", "nun_sofit", "nun", "samekh",
     "ayin", "pe_sofit", "pe", "tsadi_sofit", "tsadi", "qof",
     "resh", "shin", "tav"}

\* \w of the re module on str patterns
IsWordChar(c) ==
    c \in Digits \cup UpperLetters \cup LowerLetters \cup HebrewLetters \cup {"_"}

\* str.lower() on one character
ToLower(c) ==
    IF c \in UpperLetters
    THEN LowerSeq[CHOOSE k \in 1..Len(UpperSeq) : UpperSeq[k] = c]
    ELSE c

\* str.lower()
Lower(s) == [k \in 1..Len(s) |-> ToLower(s[k])]

\* the dictionary in its insertion order, as <<wrong, correct>> pairs
SPELLING_FIXES ==
    <<<<<<"ayin", "zayin", "vav", "tav">>,
        <<"he", "zayin", "ayin", "vav", "tav">>>>,
      <<<<"ayin", "qof", "vav", "mem", "vav", "lamed">>,
        <<"alef", "qof", "mem", "vav", "lamed">>>>,
      <<<<"lamed", "ayin", "qof", "vav", "mem", "vav", "lamed">>,
        <<"lamed", "alef", "qof", "mem", "vav", "lamed">>>>,
      <<<<"tav", "het", "yod", "lamed", "vav", "tav">>,
        <<"bet", "het", "yod", "lamed", "vav", "tav">>>>,
      <<<<"he", "resh", "mem", "vav", "nun", "yod", "tav">>,
        <<"ayin", "resh", "mem", "vav", "nun", "yod", "tav">>>>,
      <<<<"he", "he", "resh", "mem", "vav", "nun", "yod", "tav">>,
        <<"he", "ayin", "resh", "mem", "vav", "nun", "yod", "tav">>>>,
      <<<<"mem", "yod", "yod", "het", "he">>,
        <<"lamed", "yod", "het", "he">>>>,
      <<<<"mem", "ayin", "resh", "kaf_sofit", " ", "he", "ayin", "tsadi", "mem_sofit">>,
        <<"mem", "het", " ", "he", "ayin", "tsadi", "mem_sofit">>>>,
      <<<<"bet", "mem", "ayin", "resh", "kaf_sofit", " ", "he", "ayin", "tsadi", "mem_sofit">>,
        <<"bet", "mem", "het", " ", "he", "ayin", "tsadi", "mem_sofit">>>>,
      <<<<"mem", "mem", "ayin", "resh", "kaf_sofit", " ", "he", "ayin", "tsadi", "mem_sofit">>,
        <<"mem", "mem", "het", " ", "he", "ayin", "tsadi", "mem_sofit">>>>,
      <<<<"mem", "he", "ayin", "tsadi", "mem_sofit">>,
        <<"mem", "mem", "het", " ", "he", "ayin", "tsadi", "mem_sofit">>>>,
      <<<<"pe", "resh", "vav", "tet", "yod", "qof">>,
        <<"pe", "resh", "tet", "yod">>>>,
      <<<<"bet", "pe", "resh", "vav", "tet", "yod", "qof">>,
        <<"bet", "pe", "resh", "tet", "yod">>>>,
      <<<<"he", "ayin", "tav", "qof", " ", "ayin", "dalet", "bet", "qof">>,
        <<"he", "ayin", "tav", "qof", " ", "he", "dalet", "bet", "qof">>>>,
      <<<<"kaf", "he", "yod", " ", "mem", "yod", "mem_sofit">>,
        <<"kaf", "vav", "lamed", "yod", " ", "mem", "yod", "mem_sofit">>>>,
      <<<<"kaf", "vav", "alef", "yod", " ", "mem", "yod", "mem_sofit">>,
        <<"kaf", "vav", "lamed", "yod", " ", "mem", "yod", "mem_sofit">>>>,
      <<<<"he", "samekh", "mem", "yod", "nun", "yod", "mem_sofit">>,
        <<"he", "samekh", "yod", "mem", "pe", "tet", "vav", "mem", "yod", "mem_sofit">>>>,
      <<<<"bet", "mem", "qof", "resh", "yod", "bet">>,
        <<"bet", "ayin", "resh", "bet">>>>,
      <<<<"yod", "tsadi", "yod", "alef", "he", " ", "tav", "qof", "yod", "nun", "vav", "tav">>,
        <<"yod", "tsadi", "yod", "alef", "vav", "tav", " ", "tav", "qof", "yod", "nun", "vav", "tav">>>>,
      <<<<"bet", "lamed", "yod", "samekh", "he">>,
        <<"bet", "lamed", "ayin", "yod", "samekh", "he">>>>,
      <<<<"bet", "kaf", "vav", "mem_sofit", " ", "he", "lamed", "bet">>,
        <<"bet", "qof", "resh", "vav", "mem_sofit", " ", "he", "lamed", "bet">>>>,
      <<<<"resh", "gimel", "yod", "shin", "he", " ", "yod", "vav", "tav", "resh", " ", "bet", "nun", "vav", "het">>,
        <<"mem", "resh", "gimel", "yod", "shin", "he", " ", "yod", "vav", "tav", "resh", " ", "bet", "nun", "vav", "het">>>>,
      <<<<"bet", "nun", "vav", "ayin", "lamed">>,
        <<"bet", "nun", "vav", "he", "lamed">>>>,
      <<<<"qof", "resh", "dalet", "yod", "vav", "lamed", "vav", "qof">>,
        <<"qof", "resh", "dalet", "yod", "lamed", "vav", "lamed">>>>,
      <<<<"het", "vav", "mem", "samekh">>,
        <<"het", "vav", "mem_sofit">>>>,
      <<<<"he", "mem", "samekh", "tav", "resh", "mem", "vav", "tav">>,
        <<"he", "mem", "samekh", "tav", "mem", "yod", "vav", "tav">>>>,
      <<<<"shin", "alef", "yod", "resh", "vav">>,
        <<"shin", "lamed", "nun", "vav">>>>,
      <<<<"lamed", "dalet", "yod", "yod", "nun_sofit">>,
        <<"lamed", "dalet", "vav", "nun_sofit">>>>,
      <<<<"het", "tet", "pe", "mem_sofit">>,
        <<"he", "tav", "qof", "pe_sofit">>>>,
      <<<<"alef", "vav", "lamed", "tet", "resh", "samekh", "alef", "vav", "nun", "dalet">>,
        <<"U", "l", "t", "r", "a", "s", "o", "u", "n", "d">>>>,
      <<<<"mem", "vav", "lamed", "tet", "alef", "qof">>,
        <<"M", "u", "l", "t", "a", "q">>>>>>

PROTECTED_MEDICAL_TERMS ==
    {<<"D", "V", "T">>,
     <<"P", "E">>,
     <<"C", "T">>,
     <<"P", "E", "T", "-", "C", "T">>,
     <<"P", "E", "T", " ", "C", "T">>,
     <<"T", "E", "E">>,
     <<"M", "R", "I">>,
     <<"E", "C", "G">>,
     <<"E", "K", "G">>,
     <<"I", "g", "G", "4">>,
     <<"I", "G", "G", "4">>,
     <<"U", "l", "t", "r", "a", "s", "o", "u", "n", "d">>,
     <<"M", "u", "l", "t", "a", "q">>,
     <<"E", "u", "t", "h", "y", "r", "o", "x">>,
     <<"L", "i", "p", "i", "t", "o", "r">>,
     <<"alef", "nun", "dalet", "vav", "qof", "resh", "dalet", "yod", "tet", "yod", "samekh">>,
     <<"samekh", "resh", "qof", "vav", "alef", "yod", "dalet">>,
     <<"lamed", "yod", "mem", "pe", "vav", "mem", "he">>,
     <<"gimel", "resh", "nun", "vav", "lamed", "vav", "mem", "vav", "tav">>,
     <<"bet", "yod", "vav", "pe", "samekh", "yod", "he">>,
     <<"samekh", "tet", "resh", "vav", "alef", "yod", "dalet", "yod", "mem_sofit">>,
     <<"alef", "yod", "mem", "vav", "resh", "nun_sofit">>,
     <<"dalet", "yod", "gimel", "vav", "qof", "samekh", "yod", "nun_sofit">>,
     <<"pe", "resh", "vav", "qof", "vav", "resh">>,
     <<"qof", "resh", "dalet", "yod", "lamed", "vav", "lamed">>}

VALID_SPEAKERS ==
    {<<"[", "resh", "vav", "pe", "alef", "]">>,
     <<"[", "mem", "tet", "vav", "pe", "lamed", "]">>,
     <<"[", "bet", "nun_sofit", " ", "mem", "shin", "pe", "het", "he", "]">>}

\* the list hebrew_medical of _extract_medical_terms
hebrew_medical ==
    {<<"alef", "nun", "dalet", "vav", "qof", "resh", "dalet", "yod", "tet", "yod", "samekh">>,
     <<"samekh", "resh", "qof", "vav", "alef", "yod", "dalet">>,
     <<"lamed", "yod", "mem", "pe", "vav", "mem", "he">>,
     <<"gimel", "resh", "nun", "vav", "lamed", "vav", "mem", "vav", "tav">>,
     <<"bet", "yod", "vav", "pe", "samekh", "yod", "he">>,
     <<"samekh", "tet", "resh", "vav", "alef", "yod", "dalet", "yod", "mem_sofit">>,
     <<"alef", "yod", "mem", "vav", "resh", "nun_sofit">>,
     <<"dalet", "yod", "gimel", "vav", "qof", "samekh", "yod", "nun_sofit">>,
     <<"pe", "resh", "vav", "qof", "vav", "resh">>,
     <<"qof", "resh", "dalet", "yod", "lamed", "vav", "lamed">>,
     <<"tet", "mem", "pe", "vav", "resh", "lamed", "yod", "tav">>,
     <<"he", "mem", "tet", "vav", "lamed", "vav", "gimel", "yod", "mem_sofit">>,
     <<"resh", "alef", "vav", "mem", "tet", "vav", "lamed", "vav", "gimel", "yod", "mem_sofit">>,
     <<"qof", "resh", "dalet", "yod", "vav", "lamed", "vav", "gimel", "yod", "mem_sofit">>,
     <<"mem", "samekh", "tav", "mem", "yod", "mem_sofit">>,
     <<"pe", "yod", "resh", "pe", "vav", "resh">>,
     <<"alef", "shin", "pe", "vav", "zayin">>}

\* the dictionary tag_fixes of _normalize_speaker_tag, in its order
tag_fixes ==
    <<<<<<"[", "qof", "vav", "pe", "alef", "]">>,
       <<"[", "resh", "vav", "pe", "alef", "]">>>>,
     <<<<"[", "resh", "vav", "pe", "alef", "he", "]">>,
       <<"[", "resh", "vav", "pe", "alef", "]">>>>,
     <<<<"[", "het", "vav", "lamed", "he", "]">>,
       <<"[", "mem", "tet", "vav", "pe", "lamed", "]">>>>,
     <<<<"[", "mem", "shin", "pe", "het", "he", "]">>,
       <<"[", "bet", "nun_sofit", " ", "mem", "shin", "pe", "het", "he", "]">>>>>>

\* the dictionary term_map of _normalize_medical_terms, in its order
term_map ==
    <<<<<<"p", "e", "t", "-", "c", "t">>, <<"P", "E", "T", "-", "C", "T">>>>,
     <<<<"t", "e", "e">>, <<"T", "E", "E">>>>,
     <<<<"d", "v", "t">>, <<"D", "V", "T">>>>,
     <<<<"i", "g", "g", "4">>, <<"I", "g", "G", "4">>>>>>

\* the dictionary finals of _get_fingerprint
finals ==
    <<<<"kaf_sofit", "kaf">>,
     <<"mem_sofit", "mem">>,
     <<"nun_sofit", "nun">>,
     <<"pe_sofit", "pe">>,
     <<"tsadi_sofit", "tsadi">>>>

(* Python string operations used by the stages                             *)

\* text.split('\n')
SplitLines(s) == SplitOn(s, {"\n"})

\* sep.join(parts)
RECURSIVE Join(_, _)
Join(parts, sep) ==
    IF parts = <<>> THEN <<>>
    ELSE IF Len(parts) = 1 THEN parts[1]
    ELSE parts[1] \o sep \o Join(Tail(parts), sep)

\* '\n'.join(lines)
JoinLines(lines) == Join(lines, <<"\n">>)

\* ' '.join(line.split())
NormalizeSpaces(line) == Join(SplitWords(line), <<" ">>)

\* str.lstrip()
LStrip(s) ==
    LET keep == {k \in 1..Len(s) : s[k] \notin Whitespace}
    IN  IF keep = {} THEN <<>> ELSE SubSeq(s, SetMin(keep), Len(s))

\* str.rstrip()
RStrip(s) ==
    LET keep == {k \in 1..Len(s) : s[k] \notin Whitespace}
    IN  IF keep = {} THEN <<>> ELSE SubSeq(s, 1, SetMax(keep))

\* str.startswith
StartsWith(s, prefix) == MatchAt(s, 0, prefix)

\* `pat in s` for a non-empty pat
Contains(s, pat) == Find(s, pat) >= 0

\* s[p:].replace(old, new): the occurrences of old from the left, not
\* overlapping
RECURSIVE ReplaceFrom(_, _, _, _)
ReplaceFrom(s, p, old, new) ==
    IF p >= Len(s) THEN <<>>
    ELSE IF MatchAt(s, p, old) THEN new \o ReplaceFrom(s, p + Len(old), old, new)
    ELSE <<s[p + 1]>> \o ReplaceFrom(s, p + 1, old, new)

\* str.replace(old, new) for a non-empty old
Replace(s, old, new) == ReplaceFrom(s, 0, old, new)

\* \b of the re module at offset q of s: exactly one of the characters
\* before and after the offset is a word character
WordBoundary(s, q) ==
    (q >= 1 /\ IsWordChar(s[q])) # (q < Len(s) /\ IsWordChar(s[q + 1]))

\* the number of characters of s from offset p on that belong to class
RECURSIVE RunOf(_, _, _)
RunOf(s, p, class) ==
    IF p < Len(s) /\ s[p + 1] \in class THEN 1 + RunOf(s, p + 1, class) ELSE 0

(* Stage A: _stage_a_normalize                                             *)

\* the valid tag the line starts with, as a set of at most one element
TagOf(line) == {tag \in VALID_SPEAKERS : StartsWith(line, tag)}

_normalize_speaker_tag(line) ==
    LET wrongs == {k \in 1..Len(tag_fixes) : StartsWith(line, tag_fixes[k][1])}
        fix    == tag_fixes[SetMin(wrongs)]
    IN  IF TagOf(line) # {}
        THEN LET tag  == CHOOSE t \in TagOf(line) : TRUE
                 rest == LStrip(DropN(line, Len(tag)))
             IN  IF ~StartsWith(rest, <<":">>)
                 THEN tag \o <<":", " ">> \o rest
                 ELSE tag \o <<":", " ">> \o LStrip(DropN(rest, 1))
        ELSE IF wrongs # {}
        THEN fix[2] \o DropN(line, Len(fix[1]))
        ELSE line

\* re.sub(r':\s+', ': ', s[p:])
RECURSIVE SubColonSpaces(_, _)
SubColonSpaces(s, p) ==
    IF p >= Len(s) THEN <<>>
    ELSE IF s[p + 1] = ":" /\ RunOf(s, p + 1, Whitespace) > 0
    THEN <<":", " ">> \o SubColonSpaces(s, p + 1 + RunOf(s, p + 1, Whitespace))
    ELSE <<s[p + 1]>> \o SubColonSpaces(s, p + 1)

\* re.sub(r'\?+', '?', s[p:])
RECURSIVE SubQuestionMarks(_, _)
SubQuestionMarks(s, p) ==
    IF p >= Len(s) THEN <<>>
    ELSE IF s[p + 1] = "?"
    THEN <<"?">> \o SubQuestionMarks(s, p + RunOf(s, p, {"?"}))
    ELSE <<s[p + 1]>> \o SubQuestionMarks(s, p + 1)

_normalize_punctuation(line) ==
    RStrip(SubQuestionMarks(SubColonSpaces(line, 0), 0))

\* the end offset of a match of r'\bPET\s+CT\b' at offset p, -1 when none
PetCtEnd(s, p) ==
    LET spaces == RunOf(s, p + 3, Whitespace)
        finish == p + 3 + spaces + 2
    IN  IF /\ WordBoundary(s, p)
           /\ MatchAt(s, p, <<"P", "E", "T">>)
           /\ spaces > 0
           /\ MatchAt(s, p + 3 + spaces, <<"C", "T">>)
           /\ WordBoundary(s, finish)
        THEN finish ELSE -1

\* re.sub(r'\bPET\s+CT\b', 'PET-CT', s[p:])
RECURSIVE SubPetCt(_, _)
SubPetCt(s, p) ==
    IF p >= Len(s) THEN <<>>
    ELSE IF PetCtEnd(s, p) > p
    THEN <<"P", "E", "T", "-", "C", "T">> \o SubPetCt(s, PetCtEnd(s, p))
    ELSE <<s[p + 1]>> \o SubPetCt(s, p + 1)

\* rf'\b{lower}\b' with re.IGNORECASE matches at offset p
TermMatchAt(s, p, lower) ==
    /\ p + Len(lower) <= Len(s)
    /\ WordBoundary(s, p)
    /\ \A k \in 1..Len(lower) : ToLower(s[p + k]) = lower[k]
    /\ WordBoundary(s, p + Len(lower))

\* re.sub(rf'\b{lower}\b', proper, s[p:], flags=re.IGNORECASE)
RECURSIVE SubTerm(_, _, _, _)
SubTerm(s, p, lower, proper) ==
    IF p >= Len(s) THEN <<>>
    ELSE IF TermMatchAt(s, p, lower)
    THEN proper \o SubTerm(s, p + Len(lower), lower, proper)
    ELSE <<s[p + 1]>> \o SubTerm(s, p + 1, lower, proper)

\* the loop over term_map from its k-th entry on
RECURSIVE ApplyTermMap(_, _)
ApplyTermMap(line, k) ==
    IF k > Len(term_map) THEN line
    ELSE ApplyTermMap(SubTerm(line, 0, term_map[k][1], term_map[k][2]), k + 1)

_normalize_medical_terms(line) == ApplyTermMap(SubPetCt(line, 0), 1)

\* the body of the loop of _stage_a_normalize for a line that is not blank
NormalizeLine(line) ==
    _normalize_medical_terms(
        _normalize_punctuation(
            _normalize_speaker_tag(NormalizeSpaces(line))))

\* _stage_a_normalize: the new text and the line numbers (i + 1) appended to
\* report.stage_a_changes
_stage_a_normalize(t) ==
    LET lines == SplitLines(t)
        kept  == SortedSeq({k \in 1..Len(lines) : Strip(lines[k]) # <<>>})
        normalized_lines == [j \in 1..Len(kept) |-> NormalizeLine(lines[kept[j]])]
        changed == {j \in 1..Len(kept) : normalized_lines[j] # lines[kept[j]]}
    IN  [text    |-> JoinLines(normalized_lines),
         changes |-> SortedSeq({kept[j] : j \in changed})]

(* Helper methods: _extract_numbers and _extract_medical_terms             *)

\* the end offset of the match of r'\b\d+(?:\.\d+)?%?\b' at offset p, -1 when
\* none: the alternatives in the order the regex engine tries them
NumberEnd(s, p) ==
    LET d1   == p + RunOf(s, p, Digits)
        frac == IF d1 < Len(s) /\ s[d1 + 1] = "." THEN RunOf(s, d1 + 1, Digits)
                ELSE 0
        d2   == d1 + 1 + frac
        pct(q) == q < Len(s) /\ s[q + 1] = "%"
        tries == (IF frac > 0 /\ pct(d2) THEN <<d2 + 1>> ELSE <<>>)
                 \o (IF frac > 0 THEN <<d2>> ELSE <<>>)
                 \o (IF pct(d1) THEN <<d1 + 1>> ELSE <<>>)
                 \o <<d1>>
        good == {k \in 1..Len(tries) : WordBoundary(s, tries[k])}
    IN  IF d1 > p /\ WordBoundary(s, p) /\ good # {}
        THEN tries[SetMin(good)] ELSE -1

\* re.findall(pattern, s[p:])
RECURSIVE FindNumbers(_, _)
FindNumbers(s, p) ==
    IF p >= Len(s) THEN <<>>
    ELSE IF NumberEnd(s, p) > p
    THEN <<SubSeq(s, p + 1, NumberEnd(s, p))>> \o FindNumbers(s, NumberEnd(s, p))
    ELSE FindNumbers(s, p + 1)

_extract_numbers(t) == FindNumbers(t, 0)

\* [A-Za-z0-9-]
TermChars == UpperLetters \cup LowerLetters \cup Digits \cup {"-"}

\* the end offset of the match of r'\b[A-Z][A-Za-z0-9-]{1,}\b' at offset p,
\* -1 when none: the longest run that ends at a word boundary
EnglishTermEnd(s, p) ==
    LET run  == RunOf(s, p + 1, TermChars)
        ends == {e \in (p + 2)..(p + 1 + run) : WordBoundary(s, e)}
    IN  IF /\ p < Len(s)
           /\ s[p + 1] \in UpperLetters
           /\ WordBoundary(s, p)
           /\ ends # {}
        THEN SetMax(ends) ELSE -1

\* set(re.findall(english_pattern, s[p:]))
RECURSIVE FindEnglishTerms(_, _)
FindEnglishTerms(s, p) ==
    IF p >= Len(s) THEN {}
    ELSE IF EnglishTermEnd(s, p) > p
    THEN {SubSeq(s, p + 1, EnglishTermEnd(s, p))}
         \cup FindEnglishTerms(s, EnglishTermEnd(s, p))
    ELSE FindEnglishTerms(s, p + 1)

_extract_medical_terms(t) ==
    FindEnglishTerms(t, 0) \cup {term \in hebrew_medical : Contains(t, term)}

(* Stage B: _stage_b_spelling                                              *)

_is_inside_medical_term(line, word) ==
    \E term \in PROTECTED_MEDICAL_TERMS :
        Contains(term, word) /\ Contains(line, term)

\* the loop over SPELLING_FIXES from its k-th entry on, for line number
\* lineno: the fixed line and the <<wrong, correct, lineno>> entries
RECURSIVE FixLine(_, _, _)
FixLine(line, k, lineno) ==
    IF k > Len(SPELLING_FIXES) THEN [line |-> line, replacements |-> <<>>]
    ELSE LET wrong   == SPELLING_FIXES[k][1]
             correct == SPELLING_FIXES[k][2]
         IN  IF Contains(line, wrong) /\ ~_is_inside_medical_term(line, wrong)
             THEN LET rest == FixLine(Replace(line, wrong, correct), k + 1, lineno)
                  IN  [line |-> rest.line,
                       replacements |->
                           <<<<wrong, correct, lineno>>>> \o rest.replacements]
             ELSE FixLine(line, k + 1, lineno)

\* _stage_b_spelling: the new text and the entries appended to
\* report.stage_b_replacements
_stage_b_spelling(t) ==
    LET lines == SplitLines(t)
        fixed == [k \in 1..Len(lines) |-> FixLine(lines[k], 1, k)]
    IN  [text |-> JoinLines([k \in 1..Len(lines) |-> fixed[k].line]),
         replacements |->
             Join([k \in 1..Len(lines) |-> fixed[k].replacements], <<>>)]

(* Stage C: _stage_c_deduplicate                                           *)

\* [^\w\s] removes every character that is neither of these
WordOrSpace(c) == IsWordChar(c) \/ c \in Whitespace

\* the loop over finals on one character
FoldFinal(c) ==
    IF \E k \in 1..Len(finals) : finals[k][1] = c
    THEN finals[CHOOSE k \in 1..Len(finals) : finals[k][1] = c][2]
    ELSE c

_get_fingerprint(line) ==
    IF Strip(line) = <<>> THEN <<>>
    ELSE LET body == IF TagOf(line) = {} THEN line
                     ELSE DropN(line, Len(CHOOSE t \in TagOf(line) : TRUE))
             norm == NormalizeSpaces(SelectSeq(Lower(body), WordOrSpace))
         IN  [k \in 1..Len(norm) |-> FoldFinal(norm[k])]

\* the first pass from line i (1-based) on: prev is the optional
\* prev_fingerprint; the kept lines and the removed line numbers
RECURSIVE ExactPass(_, _, _)
ExactPass(lines, i, prev) ==
    IF i > Len(lines) THEN [lines |-> <<>>, removed |-> <<>>]
    ELSE LET fingerprint == _get_fingerprint(lines[i])
             duplicate   == prev = Some(fingerprint) /\ fingerprint # <<>>
             rest == ExactPass(lines, i + 1,
                               IF duplicate THEN prev ELSE Some(fingerprint))
         IN  IF duplicate
             THEN [lines |-> rest.lines, removed |-> <<i>> \o rest.removed]
             ELSE [lines |-> <<lines[i]>> \o rest.lines, removed |-> rest.removed]

WindowLines == 4

LookBack == 20

RatioNum == 17

RatioDen == 20

\* the block of up to four lines starting at 0-based index i: the
\* fingerprints of its lines that are not blank, joined by spaces
BlockText(lines, i) ==
    LET size == Min2(WindowLines, Len(lines) - i)
        used == SortedSeq({j \in 1..size : Strip(lines[i + j]) # <<>>})
    IN  Join([j \in 1..Len(used) |-> _get_fingerprint(lines[i + used[j]])],
             <<" ">>)

RECURSIVE SumSizes(_)
SumSizes(blocks) ==
    IF blocks = {} THEN 0
    ELSE LET blk == CHOOSE x \in blocks : TRUE
         IN  blk[3] + SumSizes(blocks \ {blk})

\* SequenceMatcher(None, a, b).ratio() > 0.85 for non-empty a and b, where
\* ratio() is 2.0 * matches / (len(a) + len(b)); for b shorter than 200
\* characters the automatic junk heuristic does not apply
SimilarBlocks(a, b) ==
    2 * RatioDen * SumSizes(get_matching_blocks(a, b))
        > RatioNum * (Len(a) + Len(b))

\* the block at i is similar to a block of the last twenty kept lines
IsDuplicateBlock(lines, i, result) ==
    LET block_text == BlockText(lines, i)
    IN  \E k \in Max2(0, Len(result) - LookBack)..(Len(result) - 1) :
            LET compare_text == BlockText(result, k)
            IN  /\ block_text # <<>>
                /\ compare_text # <<>>
                /\ SimilarBlocks(block_text, compare_text)

\* the while loop of _remove_near_duplicate_blocks from 0-based index i on
RECURSIVE NearPass(_, _, _, _)
NearPass(lines, i, result, removed) ==
    IF i >= Len(lines) THEN [lines |-> result, removed |-> removed]
    ELSE IF IsDuplicateBlock(lines, i, result)
    THEN NearPass(lines, i + 1, result, Append(removed, i + 1))
    ELSE NearPass(lines, i + 1, Append(result, lines[i + 1]), removed)

_remove_near_duplicate_blocks(lines) ==
    IF Len(lines) < WindowLines THEN [lines |-> lines, removed |-> <<>>]
    ELSE NearPass(lines, 0, <<>>, <<>>)

\* _stage_c_deduplicate: the new text and the line numbers appended to
\* report.stage_c_duplicate_lines (one count each in stage_c_duplicates_removed)
_stage_c_deduplicate(t) ==
    LET first  == ExactPass(SplitLines(t), 1, None)
        second == _remove_near_duplicate_blocks(first.lines)
    IN  [text |-> JoinLines(second.lines),
         duplicate_lines |-> first.removed \o second.removed]

(* Stage D: _stage_d_semantic_fix                                          *)

\* what self.gpt52_client.chat.completions.create(...) and the read of
\* completion.choices[0].message.content can do: raise, give a content of
\* None, or give a string
ClientRaises == [kind |-> "raises", content |-> <<>>]

ClientNoContent == [kind |-> "no_content", content |-> <<>>]

ClientContent(s) == [kind |-> "content", content |-> s]

\* len(result) < len(text) * 0.9, as LengthDen * len(result) < LengthNum * len(text)
LengthNum == 9

LengthDen == 10

TooShort(result, t) == LengthDen * Len(result) < LengthNum * Len(t)

\* the text returned, the entries appended to report.stage_d_corrections,
\* and whether an exception leaves the method
_stage_d_semantic_fix_NoLengthCheck(client, t, outcome) ==
    IF client = "none"
    THEN [text |-> t, corrections |-> <<>>, raised |-> FALSE]
    ELSE IF outcome.kind = "raises" \/ outcome.kind = "no_content"
    THEN [text |-> t, corrections |-> <<<<0, "LLM error">>>>, raised |-> FALSE]
    ELSE [text |-> outcome.content, corrections |-> <<>>, raised |-> FALSE]

\* a content of None makes len(result) raise TypeError inside the try block
_stage_d_semantic_fix(client, t, outcome) ==
    IF client = "none"
    THEN [text |-> t, corrections |-> <<>>, raised |-> FALSE]
    ELSE IF outcome.kind = "raises" \/ outcome.kind = "no_content"
    THEN [text |-> t, corrections |-> <<<<0, "LLM error">>>>, raised |-> FALSE]
    ELSE IF TooShort(outcome.content, t)
    THEN [text |-> t,
          corrections |-> <<<<0, "LLM result too short, keeping original">>>>,
          raised |-> FALSE]
    ELSE [text |-> outcome.content, corrections |-> <<>>, raised |-> FALSE]

(* Stage E: _stage_e_validate                                              *)

\* an entry of report.stage_e_warnings: the message it starts with and the
\* values formatted into it
Warning(kind, items, tag, count, total) ==
    [kind |-> kind, items |-> items, tag |-> tag, count |-> count, total |-> total]

\* the elements of a sequence as a set
Range(s) == {s[k] : k \in 1..Len(s)}

spelling_targets == {SPELLING_FIXES[k][2] : k \in 1..Len(SPELLING_FIXES)}

\* the keys of speaker_counts in their order
speaker_counts ==
    <<<<"[", "resh", "vav", "pe", "alef", "]">>,
      <<"[", "mem", "tet", "vav", "pe", "lamed", "]">>,
      <<"[", "bet", "nun_sofit", " ", "mem", "shin", "pe", "het", "he", "]">>>>

UntaggedMax == 5

ImbalanceNum == 9

ImbalanceDen == 10

NotBlank(line) == Strip(line) # <<>>

\* the lines of t that are not blank
SpokenLines(t) == SelectSeq(SplitLines(t), NotBlank)

\* speaker_counts[tag] after the loop over the lines
SpeakerCount(lines, tag) ==
    Cardinality({k \in 1..Len(lines) : tag \in TagOf(lines[k])})

lines_without_speaker(lines) ==
    Cardinality({k \in 1..Len(lines) : TagOf(lines[k]) = {}})

\* checks 3 and 4 fail validation too
_stage_e_validate_AdvisoryFails(t, rep) ==
    LET numbers_after == _extract_numbers(t)
        terms_before  == rep.stage_e_medical_terms_before
        terms_after   == _extract_medical_terms(t)
        missing_numbers == Range(rep.stage_e_numbers_before) \ Range(numbers_after)
        missing_terms   == terms_before \ terms_after
        real_new_terms  ==
            {term \in terms_after \ terms_before :
                /\ Lower(term) \notin {Lower(x) : x \in terms_before}
                /\ term \notin spelling_targets}
        lines       == SpokenLines(t)
        untagged    == lines_without_speaker(lines)
        total_lines == SpeakerCount(lines, speaker_counts[1])
                       + SpeakerCount(lines, speaker_counts[2])
                       + SpeakerCount(lines, speaker_counts[3])
        imbalance(k) ==
            IF /\ total_lines > 0
               /\ ImbalanceDen * SpeakerCount(lines, speaker_counts[k])
                      > ImbalanceNum * total_lines
            THEN <<Warning("Speaker imbalance", {}, speaker_counts[k],
                           SpeakerCount(lines, speaker_counts[k]), total_lines)>>
            ELSE <<>>
        warnings ==
            (IF missing_numbers # {}
             THEN <<Warning("Numbers changed/missing", missing_numbers, <<>>, 0, 0)>>
             ELSE <<>>)
            \o (IF missing_terms # {}
                THEN <<Warning("Medical terms missing", missing_terms, <<>>, 0, 0)>>
                ELSE <<>>)
            \o (IF real_new_terms # {}
                THEN <<Warning("New medical terms introduced", real_new_terms,
                               <<>>, 0, 0)>>
                ELSE <<>>)
            \o (IF untagged > UntaggedMax
                THEN <<Warning("lines without speaker tags", {}, <<>>, untagged, 0)>>
                ELSE <<>>)
            \o imbalance(1) \o imbalance(2) \o imbalance(3)
    IN  [rep EXCEPT
            !.stage_e_numbers_after = numbers_after,
            !.stage_e_medical_terms_after = terms_after,
            !.stage_e_warnings = @ \o warnings,
            !.validation_passed = IF warnings # <<>> THEN FALSE ELSE @]

\* the report after _stage_e_validate(t); the text is returned as it is
_stage_e_validate(t, rep) ==
    LET numbers_after == _extract_numbers(t)
        terms_before  == rep.stage_e_medical_terms_before
        terms_after   == _extract_medical_terms(t)
        missing_numbers == Range(rep.stage_e_numbers_before) \ Range(numbers_after)
        missing_terms   == terms_before \ terms_after
        real_new_terms  ==
            {term \in terms_after \ terms_before :
                /\ Lower(term) \notin {Lower(x) : x \in terms_before}
                /\ term \notin spelling_targets}
        lines       == SpokenLines(t)
        untagged    == lines_without_speaker(lines)
        total_lines == SpeakerCount(lines, speaker_counts[1])
                       + SpeakerCount(lines, speaker_counts[2])
                       + SpeakerCount(lines, speaker_counts[3])
        imbalance(k) ==
            IF /\ total_lines > 0
               /\ ImbalanceDen * SpeakerCount(lines, speaker_counts[k])
                      > ImbalanceNum * total_lines
            THEN <<Warning("Speaker imbalance", {}, speaker_counts[k],
                           SpeakerCount(lines, speaker_counts[k]), total_lines)>>
            ELSE <<>>
        warnings ==
            (IF missing_numbers # {}
             THEN <<Warning("Numbers changed/missing", missing_numbers, <<>>, 0, 0)>>
             ELSE <<>>)
            \o (IF missing_terms # {}
                THEN <<Warning("Medical terms missing", missing_terms, <<>>, 0, 0)>>
                ELSE <<>>)
            \o (IF real_new_terms # {}
                THEN <<Warning("New medical terms introduced", real_new_terms,
                               <<>>, 0, 0)>>
                ELSE <<>>)
            \o (IF untagged > UntaggedMax
                THEN <<Warning("lines without speaker tags", {}, <<>>, untagged, 0)>>
                ELSE <<>>)
            \o imbalance(1) \o imbalance(2) \o imbalance(3)
    IN  [rep EXCEPT
            !.stage_e_numbers_after = numbers_after,
            !.stage_e_medical_terms_after = terms_after,
            !.stage_e_warnings = @ \o warnings,
            !.validation_passed =
                IF missing_numbers # {} \/ missing_terms # {} THEN FALSE ELSE @]

(* PostProcessor.process as a state machine: "start" is the call, "A" to   *)
(* "E" are the points before the stages, "done" the return; "raised" is    *)
(* an exception leaving process().                                         *)

\* PostProcessReport()
PostProcessReport ==
    [stage_a_changes |-> <<>>,
     stage_b_replacements |-> <<>>,
     stage_c_duplicates_removed |-> 0,
     stage_c_duplicate_lines |-> <<>>,
     stage_d_corrections |-> <<>>,
     stage_e_warnings |-> <<>>,
     stage_e_numbers_before |-> <<>>,
     stage_e_numbers_after |-> <<>>,
     stage_e_medical_terms_before |-> {},
     stage_e_medical_terms_after |-> {},
     validation_passed |-> TRUE]

\* the reports returned so far after the object self.report refers to has
\* become rep: a returned report that is this object shows the change
Aliased(rep) ==
    [k \in 1..Len(returned) |->
        IF returned[k].id = report_id
        THEN [returned[k] EXCEPT !.now = rep]
        ELSE returned[k]]

\* process() keeps the report object of the call before and only assigns
\* the two extracted fields
ProcessEnter_KeepsReport ==
    /\ ppc = "start"
    /\ report' = [report EXCEPT
                     !.stage_e_numbers_before = _extract_numbers(process_input),
                     !.stage_e_medical_terms_before =
                         _extract_medical_terms(process_input)]
    /\ report_id' = report_id
    /\ returned' = Aliased(report')
    /\ current_text' = process_input
    /\ ppc' = "A"
    /\ UNCHANGED <<gpt52_client, process_input, use_llm, stage_d_input, llm>>
    /\ UNCHANGED <<mergeVars, alignVars, summaryVars, laterVars>>

\* self.report = PostProcessReport() makes a new object; then the
\* extraction before processing
ProcessEnter ==
    /\ ppc = "start"
    /\ report' = [PostProcessReport EXCEPT
                     !.stage_e_numbers_before = _extract_numbers(process_input),
                     !.stage_e_medical_terms_before =
                         _extract_medical_terms(process_input)]
    /\ report_id' = report_id + 1
    /\ returned' = returned
    /\ current_text' = process_input
    /\ ppc' = "A"
    /\ UNCHANGED <<gpt52_client, process_input, use_llm, stage_d_input, llm>>
    /\ UNCHANGED <<mergeVars, alignVars, summaryVars, laterVars>>

\* `if trace: trace.start_timer(step_id)` before a stage and `if trace:
\* trace.add_step(step_id, text)` after it; the timer is started and read
\* within the stage
Traced(step_id, text) ==
    /\ steps' = IF trace_given
                THEN add_step(steps, clock, 0, step_id, text, PyNone, PyNone)
                ELSE steps
    /\ add_step_calls' = IF trace_given THEN add_step_calls + 1
                         ELSE add_step_calls
    /\ UNCHANGED <<clock, run_id, created_at, _step_timers, trace_file,
                   loaded, tpc, trace_given>>

StageA ==
    /\ ppc = "A"
    /\ LET r == _stage_a_normalize(current_text)
       IN  /\ current_text' = r.text
           /\ report' = [report EXCEPT !.stage_a_changes = @ \o r.changes]
    /\ returned' = Aliased(report')
    /\ ppc' = "B"
    /\ UNCHANGED <<gpt52_client, report_id, process_input, use_llm,
                   stage_d_input, llm>>
    /\ Traced("step_5a_normalized", current_text')
    /\ UNCHANGED <<mergeVars, alignVars, summaryVars, laterNoTrace>>

\* stage B with the snapshot taken of the text the stage was given
StageB_TracesInput ==
    /\ ppc = "B"
    /\ LET r == _stage_b_spelling(current_text)
       IN  /\ current_text' = r.text
           /\ report' = [report EXCEPT !.stage_b_replacements = @ \o r.replacements]
    /\ returned' = Aliased(report')
    /\ ppc' = "C"
    /\ UNCHANGED <<gpt52_client, report_id, process_input, use_llm,
                   stage_d_input, llm>>
    /\ Traced("step_5b_spelling", current_text)
    /\ UNCHANGED <<mergeVars, alignVars, summaryVars, laterNoTrace>>

StageB ==
    /\ ppc = "B"
    /\ LET r == _stage_b_spelling(current_text)
       IN  /\ current_text' = r.text
           /\ report' = [report EXCEPT !.stage_b_replacements = @ \o r.replacements]
    /\ returned' = Aliased(report')
    /\ ppc' = "C"
    /\ UNCHANGED <<gpt52_client, report_id, process_input, use_llm,
                   stage_d_input, llm>>
    /\ Traced("step_5b_spelling", current_text')
    /\ UNCHANGED <<mergeVars, alignVars, summaryVars, laterNoTrace>>

StageC ==
    /\ ppc = "C"
    /\ LET r == _stage_c_deduplicate(current_text)
       IN  /\ current_text' = r.text
           /\ report' = [report EXCEPT
                            !.stage_c_duplicates_removed = @ + Len(r.duplicate_lines),
                            !.stage_c_duplicate_lines = @ \o r.duplicate_lines]
    /\ returned' = Aliased(report')
    /\ ppc' = "D"
    /\ UNCHANGED <<gpt52_client, report_id, process_input, use_llm,
                   stage_d_input, llm>>
    /\ Traced("step_5c_deduplicated", current_text')
    /\ UNCHANGED <<mergeVars, alignVars, summaryVars, laterNoTrace>>

\* the least length a result for t must have to be accepted
MinAccepted(t) == (LengthNum * Len(t) + LengthDen - 1) \div LengthDen

\* a rewrite that adds a term and leaves six lines without a speaker tag
Hallucinated ==
    <<"[", "resh", "vav", "pe", "alef", "]", ":", " ", "M", "R", "I", "\n",
      "a", "\n", "b", "\n", "c", "\n", "d", "\n", "e", "\n", "f">>

\* the strings the client may return for t: t itself, t cut to the least
\* accepted length and to one character less, and an unrelated text
Rewrites(t) ==
    {t, FirstN(t, MinAccepted(t)), Hallucinated}
    \cup (IF MinAccepted(t) > 0 THEN {FirstN(t, MinAccepted(t) - 1)} ELSE {})

ClientOutcomes(t) ==
    {ClientRaises, ClientNoContent} \cup {ClientContent(s) : s \in Rewrites(t)}

\* `if use_llm and self.gpt52_client:` holds
StageD ==
    /\ ppc = "D"
    /\ use_llm /\ gpt52_client # "none"
    /\ \E outcome \in ClientOutcomes(current_text) :
          LET r == _stage_d_semantic_fix(gpt52_client, current_text, outcome)
          IN  /\ llm' = Some(outcome)
              /\ current_text' = r.text
              /\ report' = [report EXCEPT !.stage_d_corrections = @ \o r.corrections]
              /\ ppc' = IF r.raised THEN "raised" ELSE "E"
    /\ returned' = Aliased(report')
    /\ stage_d_input' = current_text
    /\ UNCHANGED <<gpt52_client, report_id, process_input, use_llm>>
    /\ Traced("step_5d_semantic", current_text')
    /\ UNCHANGED <<mergeVars, alignVars, summaryVars, laterNoTrace>>

\* `if use_llm and self.gpt52_client:` does not hold
StageDSkipped ==
    /\ ppc = "D"
    /\ ~(use_llm /\ gpt52_client # "none")
    /\ ppc' = "E"
    /\ UNCHANGED <<gpt52_client, report, report_id, returned, process_input,
                   use_llm, current_text, stage_d_input, llm>>
    /\ UNCHANGED <<mergeVars, alignVars, summaryVars, laterVars>>

StageE ==
    /\ ppc = "E"
    /\ report' = _stage_e_validate(current_text, report)
    /\ returned' = Append(Aliased(report'),
                          [id |-> report_id, at_return |-> report', now |-> report'])
    /\ ppc' = "done"
    /\ UNCHANGED <<gpt52_client, report_id, process_input, use_llm, current_text,
                   stage_d_input, llm>>
    /\ Traced("step_5e_validated", current_text)
    /\ UNCHANGED <<mergeVars, alignVars, summaryVars, laterNoTrace>>

(* Inputs of the post-processor: texts made of parts joined by newlines.   *)

MaxParts == 2

TagDoctor == <<"[", "resh", "vav", "pe", "alef", "]">>

TagPatient == <<"[", "mem", "tet", "vav", "pe", "lamed", "]">>

TextParts ==
    {TagDoctor \o <<":", " ", "C", "T", " ", "5">>,
     TagDoctor \o <<":", " ", "c", "t", " ", "5", ".">>,
     <<"I", "G", "G", "4", " ", "3", ".", "5", "%">>,
     TagPatient \o <<" ", " ", "t", "e", "e", "?", "?">>,
     <<"[", "qof", "vav", "pe", "alef", "]", ":", " ", "P", "E", "T", " ", "C", "T">>,
     <<"het", "vav", "mem", "samekh", " ", "7", "\n", " ">>,
     <<"a", "\n", "b", "\n", "c">>,
     <<"d", "\n", "e", "\n", "f">>,
     <<"bet", "yod", "vav", "pe", "samekh", "yod", "he", " ", "1", "2", "\n",
       "bet", "yod", "vav", "pe", "samekh", "yod", "he", " ", "1", "3">>,
     <<"[", "mem", "shin", "pe", "het", "he", "]", "a">>}

\* the parts a text of more than two parts goes on with
LaterParts ==
    {TagPatient \o <<":", " ", "D", "V", "T">>,
     <<"a", " ", "1", "2">>}

RECURSIVE PostTextsOfLen(_)
PostTextsOfLen(n) ==
    IF n = 1 THEN TextParts
    ELSE {t \o <<"\n">> \o part :
             t \in PostTextsOfLen(n - 1),
             part \in IF n = 2 THEN TextParts ELSE LaterParts}

PostTexts == {<<>>} \cup UNION {PostTextsOfLen(n) : n \in 1..MaxParts}

\* PostProcessor(gpt52_client) followed by the call process(text, use_llm)
InitPost ==
    /\ gpt52_client \in {"none", "client"}
    /\ report = PostProcessReport
    /\ report_id = 0
    /\ returned = <<>>
    /\ process_input \in PostTexts
    /\ use_llm \in BOOLEAN
    /\ current_text = process_input
    /\ stage_d_input = <<>>
    /\ llm = None
    /\ ppc = "start"
    /\ MergeIdle
    /\ AlignIdle
    /\ SummaryIdle
    /\ LaterIdle

NextPost ==
    \/ ProcessEnter
    \/ StageA
    \/ StageB
    \/ StageC
    \/ StageD
    \/ StageDSkipped
    \/ StageE

SpecPost == InitPost /\ [][NextPost]_vars

(* Several calls of process() on one PostProcessor, one after the other.   *)

MaxCalls == 2

\* the texts of these calls: one that stage A changes, one that stage B
\* changes and one that stage C shortens
CallTexts ==
    {<<"I", "G", "G", "4", " ", "3", ".", "5", "%">>,
     <<"het", "vav", "mem", "samekh", " ", "7", "\n", " ">>,
     <<"a", "\n", "a">>}

\* the caller calls process(text, use_llm) again after a call has returned
ProcessAgain ==
    /\ ppc = "done"
    /\ Len(returned) < MaxCalls
    /\ process_input' \in CallTexts
    /\ use_llm' \in BOOLEAN
    /\ current_text' = process_input'
    /\ stage_d_input' = <<>>
    /\ llm' = None
    /\ ppc' = "start"
    /\ UNCHANGED <<gpt52_client, report, report_id, returned>>
    /\ UNCHANGED <<mergeVars, alignVars, summaryVars, laterVars>>

\* PostProcessor(gpt52_client) followed by the first call
InitCalls ==
    /\ gpt52_client \in {"none", "client"}
    /\ report = PostProcessReport
    /\ report_id = 0
    /\ returned = <<>>
    /\ process_input \in CallTexts
    /\ use_llm \in BOOLEAN
    /\ current_text = process_input
    /\ stage_d_input = <<>>
    /\ llm = None
    /\ ppc = "start"
    /\ MergeIdle
    /\ AlignIdle
    /\ SummaryIdle
    /\ LaterIdle

NextCalls ==
    \/ ProcessEnter
    \/ StageA
    \/ StageB
    \/ StageC
    \/ StageD
    \/ StageDSkipped
    \/ StageE
    \/ ProcessAgain

SpecCalls == InitCalls /\ [][NextCalls]_vars

(* Tables of medical_summary.py                                            *)

\* MEDICATION_EQUIVALENCES: the list of the sets of names, in its order
MEDICATION_EQUIVALENCES ==
    <<{<<"R", "a", "m", "i", "p", "r", "i", "l">>,
       <<"T", "r", "i", "t", "a", "c", "e">>,
       <<"resh", "mem", "yod", "pe", "resh", "yod", "lamed">>,
       <<"tet", "resh", "yod", "tet", "yod", "yod", "samekh">>,
       <<"tet", "resh", "yod", "yod", "tet", "yod", "yod", "samekh">>},
      {<<"E", "n", "a", "l", "a", "p", "r", "i", "l">>,
       <<"R", "e", "n", "i", "t", "e", "c">>,
       <<"alef", "nun", "lamed", "pe", "resh", "yod", "lamed">>,
       <<"resh", "nun", "yod", "tet", "qof">>},
      {<<"C", "a", "r", "d", "i", "l", "o", "c">>,
       <<"B", "i", "s", "o", "p", "r", "o", "l", "o", "l">>,
       <<"qof", "resh", "dalet", "yod", "lamed", "vav", "qof">>,
       <<"bet", "yod", "samekh", "vav", "pe", "resh", "vav", "lamed", "vav", "lamed">>},
      {<<"N", "e", "b", "i", "v", "o", "l", "o", "l">>,
       <<"N", "e", "b", "i", "l", "e", "t">>,
       <<"nun", "bet", "yod", "vav", "vav", "lamed", "vav", "lamed">>,
       <<"nun", "bet", "yod", "lamed", "tet">>},
      {<<"L", "i", "p", "i", "t", "o", "r">>,
       <<"A", "t", "o", "r", "v", "a", "s", "t", "a", "t", "i", "n">>,
       <<"lamed", "yod", "pe", "yod", "tet", "vav", "resh">>,
       <<"alef", "tet", "vav", "resh", "bet", "samekh", "tet", "tet", "yod", "nun_sofit">>},
      {<<"C", "r", "e", "s", "t", "o", "r">>,
       <<"R", "o", "s", "u", "v", "a", "s", "t", "a", "t", "i", "n">>,
       <<"qof", "resh", "samekh", "tet", "vav", "resh">>,
       <<"resh", "vav", "zayin", "vav", "bet", "samekh", "tet", "tet", "yod", "nun_sofit">>},
      {<<"S", "i", "m", "v", "a", "s", "t", "a", "t", "i", "n">>,
       <<"S", "i", "m", "v", "a", "c", "o", "r">>,
       <<"samekh", "yod", "mem", "bet", "samekh", "tet", "tet", "yod", "nun_sofit">>,
       <<"samekh", "yod", "mem", "bet", "qof", "vav", "resh">>},
      {<<"E", "z", "e", "t", "r", "o", "l">>,
       <<"E", "z", "e", "t", "i", "m", "i", "b", "e">>,
       <<"alef", "zayin", "tet", "resh", "vav", "lamed">>,
       <<"alef", "zayin", "tet", "yod", "mem", "yod", "bet">>},
      {<<"T", "i", "m", "i", "b", "e">>,
       <<"E", "z", "e", "t", "i", "m", "i", "b", "e">>,
       <<"tet", "yod", "mem", "yod", "bet">>,
       <<"alef", "zayin", "tet", "yod", "mem", "yod", "bet">>},
      {<<"I", "n", "e", "g", "y">>,
       <<"E", "z", "e", "t", "i", "m", "i", "b", "e", "/", "S", "i", "m", "v", "a", "s", "t", "a", "t", "i", "n">>,
       <<"alef", "nun", "yod", "gimel", "yod">>},
      {<<"L", "o", "s", "a", "r", "t", "a", "n">>,
       <<"O", "c", "s", "a", "a", "r">>,
       <<"lamed", "vav", "samekh", "resh", "tet", "nun_sofit">>,
       <<"alef", "vav", "qof", "samekh", "alef", "resh">>},
      {<<"V", "a", "l", "s", "a", "r", "t", "a", "n">>,
       <<"D", "i", "o", "v", "a", "n">>,
       <<"vav", "lamed", "samekh", "resh", "tet", "nun_sofit">>,
       <<"dalet", "yod", "vav", "bet", "nun_sofit">>},
      {<<"S", "p", "i", "r", "o", "n", "o", "l", "a", "c", "t", "o", "n", "e">>,
       <<"A", "l", "d", "a", "c", "t", "o", "n", "e">>,
       <<"samekh", "pe", "yod", "resh", "vav", "nun", "vav", "lamed", "qof", "tet", "vav", "nun_sofit">>,
       <<"alef", "lamed", "dalet", "qof", "tet", "vav", "nun_sofit">>},
      {<<"F", "u", "r", "o", "s", "e", "m", "i", "d", "e">>,
       <<"F", "u", "s", "i", "d">>,
       <<"L", "a", "s", "i", "x">>,
       <<"pe", "vav", "resh", "vav", "samekh", "mem", "yod", "dalet">>,
       <<"pe", "yod", "vav", "samekh", "yod", "dalet">>,
       <<"lamed", "samekh", "yod", "qof", "samekh">>},
      {<<"E", "l", "i", "q", "u", "i", "s">>,
       <<"A", "p", "i", "x", "a", "b", "a", "n">>,
       <<"alef", "lamed", "yod", "qof", "vav", "vav", "yod", "samekh">>,
       <<"alef", "pe", "yod", "qof", "samekh", "bet", "nun_sofit">>},
      {<<"X", "a", "r", "e", "l", "t", "o">>,
       <<"R", "i", "v", "a", "r", "o", "x", "a", "b", "a", "n">>,
       <<"qof", "samekh", "resh", "lamed", "tet", "vav">>,
       <<"resh", "yod", "bet", "resh", "vav", "qof", "samekh", "bet", "nun_sofit">>},
      {<<"P", "r", "a", "d", "a", "x", "a">>,
       <<"D", "a", "b", "i", "g", "a", "t", "r", "a", "n">>,
       <<"pe", "resh", "dalet", "qof", "samekh", "he">>,
       <<"dalet", "bet", "yod", "gimel", "tet", "resh", "nun_sofit">>},
      {<<"A", "s", "p", "i", "r", "i", "n", " ", "C", "a", "r", "d", "i", "o">>,
       <<"A", "s", "p", "i", "r", "i", "n">>,
       <<"M", "i", "c", "r", "o", "p", "i", "r", "i", "n">>,
       <<"alef", "samekh", "pe", "yod", "resh", "yod", "nun_sofit">>,
       <<"mem", "yod", "qof", "resh", "vav", "pe", "yod", "resh", "yod", "nun_sofit">>,
       <<"alef", "samekh", "pe", "yod", "resh", "yod", "nun_sofit", " ", "qof", "resh", "dalet", "yod", "vav">>,
       <<"qof", "resh", "dalet", "yod", "vav", " ", "alef", "samekh", "pe", "yod", "resh", "yod", "nun_sofit">>},
      {<<"E", "f", "f", "i", "e", "n", "t">>,
       <<"P", "r", "a", "s", "u", "g", "r", "e", "l">>,
       <<"alef", "pe", "yod", "yod", "nun", "tet">>,
       <<"pe", "resh", "zayin", "vav", "gimel", "resh", "lamed">>},
      {<<"P", "l", "a", "v", "i", "x">>,
       <<"C", "l", "o", "p", "i", "d", "o", "g", "r", "e", "l">>,
       <<"pe", "lamed", "vav", "vav", "yod", "qof", "samekh">>,
       <<"qof", "lamed", "vav", "pe", "yod", "dalet", "vav", "gimel", "resh", "lamed">>},
      {<<"M", "e", "t", "f", "o", "r", "m", "i", "n">>,
       <<"G", "l", "u", "c", "o", "p", "h", "a", "g", "e">>,
       <<"G", "l", "u", "c", "o", "m", "i", "n">>,
       <<"mem", "tet", "pe", "vav", "resh", "mem", "yod", "nun_sofit">>,
       <<"gimel", "lamed", "vav", "qof", "vav", "pe", "alef", "gimel", "'">>,
       <<"gimel", "lamed", "vav", "qof", "vav", "mem", "yod", "nun_sofit">>},
      {<<"J", "a", "r", "d", "i", "a", "n", "c", "e">>,
       <<"E", "m", "p", "a", "g", "l", "i", "f", "l", "o", "z", "i", "n">>,
       <<"gimel", "'", "resh", "dalet", "yod", "alef", "nun", "samekh">>,
       <<"alef", "mem", "pe", "gimel", "lamed", "yod", "pe", "lamed", "vav", "zayin", "yod", "nun_sofit">>},
      {<<"O", "z", "e", "m", "p", "i", "c">>,
       <<"S", "e", "m", "a", "g", "l", "u", "t", "i", "d", "e">>,
       <<"alef", "vav", "zayin", "mem", "pe", "yod", "qof">>,
       <<"samekh", "mem", "gimel", "lamed", "vav", "tet", "yod", "yod", "dalet">>},
      {<<"T", "r", "u", "l", "i", "c", "i", "t", "y">>,
       <<"D", "u", "l", "a", "g", "l", "u", "t", "i", "d", "e">>,
       <<"tet", "resh", "vav", "lamed", "yod", "samekh", "yod", "tet", "yod">>,
       <<"dalet", "vav", "lamed", "gimel", "lamed", "vav", "tet", "yod", "yod", "dalet">>},
      {<<"N", "e", "x", "i", "u", "m">>,
       <<"E", "s", "o", "m", "e", "p", "r", "a", "z", "o", "l", "e">>,
       <<"nun", "qof", "samekh", "yod", "vav", "mem_sofit">>,
       <<"alef", "samekh", "vav", "mem", "pe", "resh", "zayin", "vav", "lamed">>},
      {<<"O", "m", "e", "p", "r", "a", "z", "o", "l", "e">>,
       <<"L", "o", "s", "e", "c">>,
       <<"O", "m", "e", "p", "r", "a", "d", "e", "x">>,
       <<"alef", "vav", "mem", "pe", "resh", "zayin", "vav", "lamed">>,
       <<"lamed", "vav", "samekh", "qof">>,
       <<"alef", "vav", "mem", "pe", "resh", "dalet", "qof", "samekh">>},
      {<<"O", "p", "o", "d", "i", "x">>,
       <<"D", "e", "x", "l", "a", "n", "s", "o", "p", "r", "a", "z", "o", "l", "e">>,
       <<"alef", "vav", "pe", "vav", "dalet", "yod", "qof", "samekh">>},
      {<<"Z", "o", "p", "i", "c", "l", "o", "n", "e">>,
       <<"N", "o", "c", "t", "u", "r", "n", "o">>,
       <<"I", "m", "o", "v", "a", "n", "e">>,
       <<"zayin", "vav", "pe", "yod", "qof", "lamed", "vav", "nun_sofit">>,
       <<"nun", "vav", "qof", "tet", "vav", "resh", "nun", "vav">>,
       <<"alef", "yod", "mem", "vav", "bet", "nun_sofit">>},
      {<<"C", "i", "p", "r", "a", "l", "e", "x">>,
       <<"E", "s", "c", "i", "t", "a", "l", "o", "p", "r", "a", "m">>,
       <<"tsadi", "yod", "pe", "resh", "lamed", "qof", "samekh">>,
       <<"alef", "samekh", "tsadi", "yod", "tet", "lamed", "vav", "pe", "resh", "mem_sofit">>},
      {<<"C", "l", "o", "n", "e", "x">>,
       <<"C", "l", "o", "n", "a", "z", "e", "p", "a", "m">>,
       <<"qof", "lamed", "vav", "nun", "qof", "samekh">>,
       <<"qof", "lamed", "vav", "nun", "zayin", "pe", "mem_sofit">>},
      {<<"L", "o", "r", "i", "v", "a", "n">>,
       <<"L", "o", "r", "a", "z", "e", "p", "a", "m">>,
       <<"lamed", "vav", "resh", "yod", "bet", "nun_sofit">>,
       <<"lamed", "vav", "resh", "zayin", "pe", "mem_sofit">>},
      {<<"E", "u", "t", "h", "y", "r", "o", "x">>,
       <<"L", "e", "v", "o", "t", "h", "y", "r", "o", "x", "i", "n", "e">>,
       <<"E", "l", "t", "r", "o", "x", "i", "n">>,
       <<"alef", "vav", "tav", "yod", "resh", "vav", "qof", "samekh">>,
       <<"lamed", "bet", "vav", "tav", "yod", "resh", "vav", "qof", "samekh", "yod", "nun_sofit">>,
       <<"alef", "lamed", "tet", "resh", "vav", "qof", "samekh", "yod", "nun_sofit">>},
      {<<"M", "u", "l", "t", "a", "q">>,
       <<"D", "r", "o", "n", "e", "d", "a", "r", "o", "n", "e">>,
       <<"mem", "vav", "lamed", "tet", "alef", "qof">>,
       <<"dalet", "resh", "vav", "nun", "dalet", "resh", "vav", "nun_sofit">>}>>

\* DOSAGE_RANGES in its order: the key, the minimum and the maximum single
\* dose in thousandths of a mg
DOSAGE_RANGES ==
    <<<<<<"r", "a", "m", "i", "p", "r", "i", "l">>, 1250, 10000>>,
      <<<<"t", "r", "i", "t", "a", "c", "e">>, 1250, 10000>>,
      <<<<"b", "i", "s", "o", "p", "r", "o", "l", "o", "l">>, 1250, 10000>>,
      <<<<"c", "a", "r", "d", "i", "l", "o", "c">>, 1250, 10000>>,
      <<<<"e", "n", "a", "l", "a", "p", "r", "i", "l">>, 2500, 40000>>,
      <<<<"l", "o", "s", "a", "r", "t", "a", "n">>, 25000, 100000>>,
      <<<<"v", "a", "l", "s", "a", "r", "t", "a", "n">>, 40000, 320000>>,
      <<<<"a", "t", "o", "r", "v", "a", "s", "t", "a", "t", "i", "n">>, 10000, 80000>>,
      <<<<"l", "i", "p", "i", "t", "o", "r">>, 10000, 80000>>,
      <<<<"r", "o", "s", "u", "v", "a", "s", "t", "a", "t", "i", "n">>, 5000, 40000>>,
      <<<<"c", "r", "e", "s", "t", "o", "r">>, 5000, 40000>>,
      <<<<"s", "i", "m", "v", "a", "s", "t", "a", "t", "i", "n">>, 5000, 80000>>,
      <<<<"e", "z", "e", "t", "i", "m", "i", "b", "e">>, 10000, 10000>>,
      <<<<"e", "z", "e", "t", "r", "o", "l">>, 10000, 10000>>,
      <<<<"s", "p", "i", "r", "o", "n", "o", "l", "a", "c", "t", "o", "n", "e">>, 12500, 200000>>,
      <<<<"a", "l", "d", "a", "c", "t", "o", "n", "e">>, 12500, 200000>>,
      <<<<"f", "u", "r", "o", "s", "e", "m", "i", "d", "e">>, 20000, 600000>>,
      <<<<"a", "s", "p", "i", "r", "i", "n">>, 75000, 325000>>,
      <<<<"p", "r", "a", "s", "u", "g", "r", "e", "l">>, 5000, 10000>>,
      <<<<"e", "f", "f", "i", "e", "n", "t">>, 5000, 10000>>,
      <<<<"c", "l", "o", "p", "i", "d", "o", "g", "r", "e", "l">>, 75000, 75000>>,
      <<<<"p", "l", "a", "v", "i", "x">>, 75000, 75000>>,
      <<<<"a", "p", "i", "x", "a", "b", "a", "n">>, 2500, 5000>>,
      <<<<"e", "l", "i", "q", "u", "i", "s">>, 2500, 5000>>,
      <<<<"r", "i", "v", "a", "r", "o", "x", "a", "b", "a", "n">>, 10000, 20000>>,
      <<<<"x", "a", "r", "e", "l", "t", "o">>, 10000, 20000>>,
      <<<<"m", "e", "t", "f", "o", "r", "m", "i", "n">>, 500000, 2550000>>,
      <<<<"g", "l", "u", "c", "o", "p", "h", "a", "g", "e">>, 500000, 2550000>>,
      <<<<"e", "m", "p", "a", "g", "l", "i", "f", "l", "o", "z", "i", "n">>, 10000, 25000>>,
      <<<<"j", "a", "r", "d", "i", "a", "n", "c", "e">>, 10000, 25000>>,
      <<<<"z", "o", "p", "i", "c", "l", "o", "n", "e">>, 3750, 7500>>,
      <<<<"n", "o", "c", "t", "u", "r", "n", "o">>, 3750, 7500>>,
      <<<<"e", "s", "c", "i", "t", "a", "l", "o", "p", "r", "a", "m">>, 5000, 20000>>,
      <<<<"c", "i", "p", "r", "a", "l", "e", "x">>, 5000, 20000>>,
      <<<<"c", "l", "o", "n", "a", "z", "e", "p", "a", "m">>, 250, 6000>>,
      <<<<"c", "l", "o", "n", "e", "x">>, 250, 6000>>,
      <<<<"l", "o", "r", "a", "z", "e", "p", "a", "m">>, 500, 6000>>,
      <<<<"l", "o", "r", "i", "v", "a", "n">>, 500, 6000>>,
      <<<<"o", "m", "e", "p", "r", "a", "z", "o", "l", "e">>, 10000, 40000>>,
      <<<<"e", "s", "o", "m", "e", "p", "r", "a", "z", "o", "l", "e">>, 20000, 40000>>,
      <<<<"n", "e", "x", "i", "u", "m">>, 20000, 40000>>,
      <<<<"l", "e", "v", "o", "t", "h", "y", "r", "o", "x", "i", "n", "e">>, 12500, 300000>>,
      <<<<"e", "u", "t", "h", "y", "r", "o", "x">>, 12500, 300000>>,
      <<<<"e", "l", "t", "r", "o", "x", "i", "n">>, 12500, 300000>>>>

\* the pieces of the warning of _check_dosage_plausibility
DosageWarningMiddle ==
    <<" ", "m", "g", " ", "emdash", " ", "mem", "yod", "nun", "vav", "nun_sofit", " ", "het", "resh", "yod", "gimel", " ", "(", "tet", "vav", "vav", "het", " ", "samekh", "tet", "nun", "dalet", "resh", "tet", "yod", ":", " ">>

\* between the range and the last sentence
DosageWarningEnd ==
    <<" ", "m", "g", ")", ".", " ">>

\* the last sentence
DosageWarningLast ==
    <<"yod", "yod", "tav", "kaf", "nun_sofit", " ", "shin", "gimel", "yod", "alef", "tav", " ", "tav", "mem", "lamed", "vav", "lamed", ".">>

\* the pieces of the warnings of _inject_warnings
WarningSign ==
    <<"warning_sign", "vs16", " ">>

\* a hallucinated medication
HallucinatedPrefix ==
    <<"tav", "resh", "vav", "pe", "he", " ", "shin", "yod", "yod", "tav", "kaf", "nun_sofit", " ", "shin", "lamed", "alef", " ", "he", "vav", "zayin", "kaf", "resh", "he", " ", "bet", "tav", "mem", "lamed", "vav", "lamed", ":", " ">>

\* a duplicate group
DuplicatePrefix ==
    <<"kaf", "pe", "yod", "lamed", "vav", "tav", " ", "tav", "resh", "vav", "pe", "tav", "yod", "tav", " ", "alef", "pe", "shin", "resh", "yod", "tav", ":", " ">>

\* before the last name of a group
DuplicateAnd ==
    <<" ", "vav", "-">>

\* after the last name of a group
DuplicateSuffix ==
    <<" ", "he", "nun_sofit", " ", "kaf", "kaf", "lamed", " ", "he", "nun", "resh", "alef", "he", " ", "alef", "vav", "tav", "he", " ", "tav", "resh", "vav", "pe", "he">>

\* a suspicious dosage
SuspiciousPrefix ==
    <<"mem", "yod", "nun", "vav", "nun_sofit", " ", "het", "shin", "vav", "dalet", ":", " ">>

\* fabricated information
FabricatedPrefix ==
    <<"mem", "yod", "dalet", "ayin", " ", "shin", "yod", "yod", "tav", "kaf", "nun_sofit", " ", "shin", "lamed", "alef", " ", "he", "vav", "zayin", "kaf", "resh", " ", "bet", "tav", "mem", "lamed", "vav", "lamed", ":", " ">>

\* an unrecognized medication
UnrecognizedMedPrefix ==
    <<"tav", "resh", "vav", "pe", "he", " ", "lamed", "alef", " ", "mem", "zayin", "vav", "he", "he", " ", "bet", "mem", "alef", "gimel", "resh", " ", "A", "T", "C", ":", " ">>

\* an unrecognized condition
UnrecognizedCondPrefix ==
    <<"mem", "het", "lamed", "tav", " ", "resh", "qof", "ayin", " ", "lamed", "alef", " ", "mem", "zayin", "vav", "he", "he", " ", "bet", "mem", "ayin", "resh", "kaf", "tav", " ", "I", "C", "D", ":", " ">>

\* a misclassified symptom
MisclassifiedPrefix ==
    <<"tav", "samekh", "mem", "yod", "nun_sofit", " ", "shin", "samekh", "vav", "vav", "gimel", " ", "kaf", "mem", "het", "lamed", "tav", " ", "resh", "qof", "ayin", ":", " ">>

\* the chief complaint
ChiefComplaintPrefix ==
    <<"tav", "lamed", "vav", "nun", "he", " ", "ayin", "yod", "qof", "resh", "yod", "tav", ":", " ">>

\* the header of the warnings section
WarningsHeader ==
    <<"-", "-", "-", "alef", "zayin", "he", "resh", "vav", "tav", " ", "bet", "qof", "resh", "tav", " ", "alef", "yod", "kaf", "vav", "tav", "-", "-", "-">>

\* the start of a bullet line
Bullet ==
    <<"bullet", " ">>

(* The deterministic checks of MedicalSummaryGenerator                     *)

\* `pat in s`, which holds for the empty pat
InText(pat, s) == \E p \in 0..(Len(s) - Len(pat)) : MatchAt(s, p, pat)

\* found_names of _check_medication_duplicates for the k-th group and the
\* lowered summary, as a set: the list is filled in the iteration order of
\* the set, which is not fixed
FoundNames(k, summary_lower) ==
    {name \in MEDICATION_EQUIVALENCES[k] : InText(Lower(name), summary_lower)}

MoreThanOne(names) == Cardinality(names) > 1

\* the values of found_groups in the order of their keys, as sets
found_groups(summary) ==
    LET summary_lower == Lower(summary)
    IN  SelectSeq([k \in 1..Len(MEDICATION_EQUIVALENCES) |->
                      FoundNames(k, summary_lower)],
                  MoreThanOne)

\* the lists a set can be iterated as
Orderings(S) ==
    {f \in [1..Cardinality(S) -> S] :
        \A i, j \in 1..Cardinality(S) : f[i] = f[j] => i = j}

\* the values deterministic_duplicate_groups can be extended by: one list
\* per found group from the k-th found group on
RECURSIVE GroupLists(_, _)
GroupLists(found, k) ==
    IF k > Len(found) THEN {<<>>}
    ELSE {<<names>> \o rest :
             names \in Orderings(found[k]), rest \in GroupLists(found, k + 1)}

\* the pairs (names[i], names[j]) with i < j in the order of the two loops
PairsOf(names) ==
    LET idx == {p \in (1..Len(names)) \X (1..Len(names)) : p[1] < p[2]}
        key(p) == p[1] * (Len(names) + 1) + p[2]
        ord == SortedSeq({key(p) : p \in idx})
    IN  [n \in 1..Len(ord) |->
            LET p == CHOOSE q \in idx : key(q) = ord[n]
            IN  <<names[p[1]], names[p[2]]>>]

\* the pairs of the groups, group after group
PairsOfGroups(groups) == Join([k \in 1..Len(groups) |-> PairsOf(groups[k])], <<>>)

\* _check_medication_duplicates: the possible extensions of
\* deterministic_duplicate_groups; deterministic_duplicate_pairs is extended
\* by PairsOfGroups of the one chosen
_check_medication_duplicates(summary) == GroupLists(found_groups(summary), 1)

\* [\w\-]
NameChars ==
    Digits \cup UpperLetters \cup LowerLetters \cup HebrewLetters \cup {"_", "-"}

\* (?:mg|מ"ג|מג) with re.IGNORECASE at offset p: the length matched, 0 when
\* none
UnitLength(s, p) ==
    IF p + 2 <= Len(s) /\ ToLower(s[p + 1]) = "m" /\ ToLower(s[p + 2]) = "g" THEN 2
    ELSE IF MatchAt(s, p, <<"mem", "\"", "gimel">>) THEN 3
    ELSE IF MatchAt(s, p, <<"mem", "gimel">>) THEN 2
    ELSE 0

\* the match of dosage_pattern that starts at offset p, if there is one:
\* the two groups and the end offset
DosageMatchAt(s, p) ==
    LET name  == RunOf(s, p, NameChars)
        q1    == p + name
        gap   == RunOf(s, q1, Whitespace)
        q2    == q1 + gap
        whole == RunOf(s, q2, Digits)
        q3    == q2 + whole
        frac  == IF q3 < Len(s) /\ s[q3 + 1] = "." THEN RunOf(s, q3 + 1, Digits)
                 ELSE 0
        q4    == IF frac > 0 THEN q3 + 1 + frac ELSE q3
        q5    == q4 + RunOf(s, q4, Whitespace)
    IN  IF /\ p < Len(s)
           /\ IsWordChar(s[p + 1])
           /\ gap > 0
           /\ whole > 0
           /\ UnitLength(s, q5) > 0
        THEN Some([drug |-> SubSeq(s, p + 1, q1),
                   dose |-> SubSeq(s, q2 + 1, q4),
                   finish |-> q5 + UnitLength(s, q5)])
        ELSE None

\* dosage_pattern.finditer(s[p:])
RECURSIVE FindDosages(_, _)
FindDosages(s, p) ==
    IF p >= Len(s) THEN <<>>
    ELSE IF DosageMatchAt(s, p) # None
    THEN <<DosageMatchAt(s, p)[1]>> \o FindDosages(s, DosageMatchAt(s, p)[1].finish)
    ELSE FindDosages(s, p + 1)

\* int(digits) for a string of digits, 0 for the empty one
RECURSIVE ToNat(_)
ToNat(digits) ==
    IF digits = <<>> THEN 0
    ELSE 10 * ToNat(SubSeq(digits, 1, Len(digits) - 1))
         + DigitValue(digits[Len(digits)])

RECURSIVE Pow10(_)
Pow10(n) == IF n = 0 THEN 1 ELSE 10 * Pow10(n - 1)

\* the digits of the dose without the point, and the number of digits
\* after the point
NotPoint(c) == c # "."

DoseDigits(dose) == SelectSeq(dose, NotPoint)

FractionDigits(dose) ==
    IF Contains(dose, <<".">>) THEN Len(dose) - Find(dose, <<".">>) - 1 ELSE 0

ThousandthsPerMg == 1000

\* float(dose) < min_dose * 0.5, for a minimum in thousandths of a mg: both
\* sides are exact for the doses and the table values used here
BelowHalf(dose, min_dose) ==
    LET f == FractionDigits(dose)
        n == ToNat(DoseDigits(dose))
    IN  IF f <= 3 THEN 2 * n * Pow10(3 - f) < min_dose
        ELSE 2 * n < min_dose * Pow10(f - 3)

\* float(dose) >= max_dose * 1.5: a dose at the boundary counts as above it
AboveOneAndHalf_Inclusive(dose, max_dose) ==
    LET f == FractionDigits(dose)
        n == ToNat(DoseDigits(dose))
    IN  IF f <= 3 THEN 2 * n * Pow10(3 - f) >= 3 * max_dose
        ELSE 2 * n >= 3 * max_dose * Pow10(f - 3)

\* float(dose) > max_dose * 1.5
AboveOneAndHalf(dose, max_dose) ==
    LET f == FractionDigits(dose)
        n == ToNat(DoseDigits(dose))
    IN  IF f <= 3 THEN 2 * n * Pow10(3 - f) > 3 * max_dose
        ELSE 2 * n > 3 * max_dose * Pow10(f - 3)

\* f"{v}" for a table value v given in thousandths
FormatDose(v) ==
    LET fr == v % ThousandthsPerMg
        digits == <<DigitSeq[(fr \div 100) + 1], DigitSeq[((fr \div 10) % 10) + 1],
                    DigitSeq[(fr % 10) + 1]>>
        last == SetMax({k \in 1..3 : digits[k] # "0"})
    IN  NatToStr(v \div ThousandthsPerMg)
        \o (IF fr = 0 THEN <<>> ELSE <<".">> \o SubSeq(digits, 1, last))

\* the entry of DOSAGE_RANGES for drug_name, as a set of at most one index
RangeOf(drug_name) ==
    {k \in 1..Len(DOSAGE_RANGES) : DOSAGE_RANGES[k][1] = drug_name}

\* the warning for a match m whose drug is the k-th key
DosageWarning(m, k) ==
    m.drug \o <<" ">> \o m.dose \o DosageWarningMiddle
    \o FormatDose(DOSAGE_RANGES[k][2]) \o <<"-">> \o FormatDose(DOSAGE_RANGES[k][3])
    \o DosageWarningEnd \o DosageWarningLast

\* the warnings for the matches from the n-th on
RECURSIVE WarningsFrom(_, _)
WarningsFrom(matches, n) ==
    IF n > Len(matches) THEN <<>>
    ELSE LET m == matches[n]
             range == RangeOf(Lower(m.drug))
             k == CHOOSE x \in range : TRUE
         IN  (IF /\ range # {}
                 /\ \/ BelowHalf(m.dose, DOSAGE_RANGES[k][2])
                    \/ AboveOneAndHalf(m.dose, DOSAGE_RANGES[k][3])
              THEN <<DosageWarning(m, k)>> ELSE <<>>)
             \o WarningsFrom(matches, n + 1)

\* _check_dosage_plausibility: the entries appended to
\* deterministic_dosage_warnings
_check_dosage_plausibility(summary) == WarningsFrom(FindDosages(summary, 0), 1)

\* all_med_names
all_med_names == UNION {MEDICATION_EQUIVALENCES[k] : k \in 1..Len(MEDICATION_EQUIVALENCES)}

\* the names of all_med_names in a text; the code keeps them as a sorted
\* list, which this set determines
MedsIn(t) ==
    LET t_lower == Lower(t)
    IN  {m \in all_med_names : InText(Lower(m), t_lower)}

(* MedicalSummaryGenerator.generate as a state machine: "start" is the     *)
(* call, "checks", "validate", "fix" and "inject" are the points before    *)
(* steps 2, 3, 3b and 4, "done" the return; "raised" is an exception       *)
(* leaving generate().                                                     *)

\* MedicalSummaryReport(); the two sorted lists of names are kept as sets
MedicalSummaryReport ==
    [summary_text |-> <<>>,
     hallucinated_medications |-> <<>>,
     duplicate_medications |-> <<>>,
     suspicious_dosages |-> <<>>,
     fabricated_info |-> <<>>,
     chief_complaint_ok |-> TRUE,
     chief_complaint_note |-> <<>>,
     faithfulness_score |-> 0,
     meds_in_transcript |-> {},
     meds_in_summary |-> {},
     deterministic_duplicate_pairs |-> <<>>,
     deterministic_duplicate_groups |-> <<>>,
     deterministic_dosage_warnings |-> <<>>,
     unrecognized_medications |-> <<>>,
     unrecognized_conditions |-> <<>>,
     misclassified_symptoms |-> <<>>,
     validation_passed |-> TRUE]

\* what a call of self.client.chat.completions.create and the read of the
\* content can do: raise, give a content of None, or give a string; for the
\* validation call the string is given by what the code finds in it
AnswerRaises == [kind |-> "raises"]

AnswerNoContent == [kind |-> "no_content"]

AnswerText(s) == [kind |-> "text", content |-> s]

\* a content in which re.search(r'\{[\s\S]*\}') finds nothing
AnswerNoJson == [kind |-> "no_json"]

\* a content whose match json.loads rejects
AnswerBadJson == [kind |-> "bad_json"]

\* a content whose match json.loads reads as the dict d
AnswerJson(d) == [kind |-> "json", dict |-> d]

\* _call_llm_generate: the stripped content; a raise or a content of None
\* leaves the method as an exception
_call_llm_generate(answer) ==
    IF answer.kind = "text"
    THEN [raised |-> FALSE, text |-> Strip(answer.content)]
    ELSE [raised |-> TRUE, text |-> <<>>]

\* _call_llm_validate: the dict read from the content, {} when the call
\* raises, the content is None, there is no match or json.loads raises
_call_llm_validate(answer) ==
    IF answer.kind = "json" THEN answer.dict ELSE <<>>

\* validation.get(key, default)
Get(validation, key, default) ==
    IF key \in DOMAIN validation THEN validation[key] ELSE default

\* an element of the list "duplicate_medications": a list or a string
PairList(names) == [list |-> TRUE, value |-> names]

PairString(name) == [list |-> FALSE, value |-> name]

\* tuple(pair) if isinstance(pair, list) else (pair, "")
AsTuple(pair) == IF pair.list THEN pair.value ELSE <<pair.value, <<>>>>

\* the report after _apply_llm_validation(validation)
_apply_llm_validation(validation, rep) ==
    IF DOMAIN validation = {} THEN rep
    ELSE LET duplicates == Get(validation, "duplicate_medications", <<>>)
         IN  [rep EXCEPT
                !.hallucinated_medications =
                    Get(validation, "hallucinated_medications", <<>>),
                !.duplicate_medications =
                    [k \in 1..Len(duplicates) |-> AsTuple(duplicates[k])],
                !.suspicious_dosages = Get(validation, "suspicious_dosages", <<>>),
                !.fabricated_info = Get(validation, "fabricated_info", <<>>),
                !.chief_complaint_ok = Get(validation, "chief_complaint_ok", TRUE),
                !.chief_complaint_note = Get(validation, "chief_complaint_note", <<>>),
                !.faithfulness_score =
                    Get(validation, "overall_faithfulness_score", 0),
                !.unrecognized_medications =
                    Get(validation, "unrecognized_medications", <<>>),
                !.unrecognized_conditions =
                    Get(validation, "unrecognized_conditions", <<>>),
                !.misclassified_symptoms =
                    Get(validation, "misclassified_symptoms", <<>>)]

\* len(fixed) < len(summary) * 0.5
FixTooShort(fixed, summary) == 2 * Len(fixed) < Len(summary)

\* _call_llm_fix: the summary is kept when the call raises, the content is
\* None or the stripped content is too short
_call_llm_fix(summary, answer) ==
    IF answer.kind # "text" THEN summary
    ELSE IF FixTooShort(Strip(answer.content), summary) THEN summary
    ELSE Strip(answer.content)

\* str(list) for a list of strings without quotes and backslashes
ListRepr(strings) ==
    <<"[">> \o Join([k \in 1..Len(strings) |-> <<"'">> \o strings[k] \o <<"'">>],
                    <<",", " ">>)
    \o <<"]">>

\* the text of the warning for a duplicate group
GroupWarning(group) ==
    IF Len(group) = 2
    THEN DuplicatePrefix \o group[1] \o DuplicateAnd \o group[2] \o DuplicateSuffix
    ELSE DuplicatePrefix \o Join(SubSeq(group, 1, Len(group) - 1), <<",", " ">>)
         \o DuplicateAnd \o group[Len(group)] \o DuplicateSuffix

\* warnings_section of _inject_warnings
warnings_section(rep) ==
    LET each(prefix, items) == [k \in 1..Len(items) |-> WarningSign \o prefix \o items[k]]
        known == ListRepr(rep.deterministic_dosage_warnings)
        NotKnown(issue) == ~InText(issue, known)
    IN  each(HallucinatedPrefix, rep.hallucinated_medications)
        \o [k \in 1..Len(rep.deterministic_duplicate_groups) |->
               WarningSign \o GroupWarning(rep.deterministic_duplicate_groups[k])]
        \o each(<<>>, rep.deterministic_dosage_warnings)
        \o each(SuspiciousPrefix, SelectSeq(rep.suspicious_dosages, NotKnown))
        \o each(FabricatedPrefix, rep.fabricated_info)
        \o each(UnrecognizedMedPrefix, rep.unrecognized_medications)
        \o each(UnrecognizedCondPrefix, rep.unrecognized_conditions)
        \o each(MisclassifiedPrefix, rep.misclassified_symptoms)
        \o (IF ~rep.chief_complaint_ok
            THEN <<WarningSign \o ChiefComplaintPrefix \o rep.chief_complaint_note>>
            ELSE <<>>)

\* the lines appended for the warnings w
SectionLines(w) ==
    <<<<>>, <<>>, WarningsHeader, <<>>>> \o [k \in 1..Len(w) |-> Bullet \o w[k]]

\* the warnings are put before the summary
_inject_warnings_Before(summary, rep) ==
    LET w == warnings_section(rep)
    IN  IF w = <<>> THEN JoinLines(SplitLines(summary))
        ELSE JoinLines(SectionLines(w) \o SplitLines(summary))

_inject_warnings(summary, rep) ==
    LET w == warnings_section(rep)
    IN  IF w = <<>> THEN JoinLines(SplitLines(summary))
        ELSE JoinLines(SplitLines(summary) \o SectionLines(w))

PassScore == 7

\* the value assigned to self.report.validation_passed
ValidationPassed(rep) ==
    /\ Len(rep.hallucinated_medications) = 0
    /\ Len(rep.fabricated_info) = 0
    /\ rep.chief_complaint_ok
    /\ rep.faithfulness_score >= PassScore

\* no call of the client has been answered yet in this call of generate()
NoAnswers == [generate |-> None, validate |-> None, fix |-> None]

\* step 1: raw_summary = self._call_llm_generate(transcription), for a
\* client that gives one of answers
GenerateDraftFrom(answers) ==
    /\ spc = "start"
    /\ \E answer \in answers :
          LET r == _call_llm_generate(answer)
          IN  /\ client_answers' = [client_answers EXCEPT !.generate = Some(answer)]
              /\ raw_summary' = r.text
              /\ spc' = IF r.raised THEN "raised" ELSE "checks"
    /\ UNCHANGED <<transcription, sreport, llm_validation, corrected_summary,
                   final_summary, generations>>
    /\ UNCHANGED <<mergeVars, alignVars, postVars, laterVars>>

\* step 2: self._deterministic_validation(transcription, raw_summary)
DeterministicValidation ==
    /\ spc = "checks"
    /\ \E groups \in _check_medication_duplicates(raw_summary) :
          sreport' = [sreport EXCEPT
              !.deterministic_duplicate_groups = @ \o groups,
              !.deterministic_duplicate_pairs = @ \o PairsOfGroups(groups),
              !.deterministic_dosage_warnings =
                  @ \o _check_dosage_plausibility(raw_summary),
              !.meds_in_transcript = MedsIn(transcription),
              !.meds_in_summary = MedsIn(raw_summary)]
    /\ spc' = "validate"
    /\ UNCHANGED <<transcription, client_answers, raw_summary, llm_validation,
                   corrected_summary, final_summary, generations>>
    /\ UNCHANGED <<mergeVars, alignVars, postVars, laterVars>>

\* step 3: the validation call, _apply_llm_validation, and
\* corrected_summary = raw_summary with the test of fabricated_info
LlmValidateFrom(answers) ==
    /\ spc = "validate"
    /\ \E answer \in answers :
          /\ client_answers' = [client_answers EXCEPT !.validate = Some(answer)]
          /\ llm_validation' = _call_llm_validate(answer)
    /\ sreport' = _apply_llm_validation(llm_validation', sreport)
    /\ corrected_summary' = raw_summary
    /\ spc' = IF sreport'.fabricated_info # <<>> THEN "fix" ELSE "inject"
    /\ UNCHANGED <<transcription, raw_summary, final_summary, generations>>
    /\ UNCHANGED <<mergeVars, alignVars, postVars, laterVars>>

\* step 3b: corrected_summary = self._call_llm_fix(...)
LlmFixFrom(answers) ==
    /\ spc = "fix"
    /\ \E answer \in answers :
          /\ client_answers' = [client_answers EXCEPT !.fix = Some(answer)]
          /\ corrected_summary' = _call_llm_fix(raw_summary, answer)
    /\ spc' = "inject"
    /\ UNCHANGED <<transcription, sreport, raw_summary, llm_validation,
                   final_summary, generations>>
    /\ UNCHANGED <<mergeVars, alignVars, postVars, laterVars>>

\* step 4 and the return
InjectAndReturn ==
    /\ spc = "inject"
    /\ final_summary' = _inject_warnings(corrected_summary, sreport)
    /\ sreport' = [sreport EXCEPT
                      !.summary_text = final_summary',
                      !.validation_passed = ValidationPassed(sreport)]
    /\ spc' = "done"
    /\ UNCHANGED <<transcription, client_answers, raw_summary, llm_validation,
                   corrected_summary, generations>>
    /\ UNCHANGED <<mergeVars, alignVars, postVars, laterVars>>

(* Inputs of the summary generator                                         *)

MaxSummaryParts == 2

SummaryParts ==
    {<<"R", "a", "m", "i", "p", "r", "i", "l", " ", "1", "0", " ", "m", "g">>,
     <<"R", "a", "m", "i", "p", "r", "i", "l", " ", "1", "5", " ", "m", "g">>,
     <<"R", "a", "m", "i", "p", "r", "i", "l", " ", "1", "6", " ", "m", "g">>,
     <<"r", "a", "m", "i", "p", "r", "i", "l", " ", "0", ".", "6", "2", "5", "M", "G">>,
     <<"C", "r", "e", "s", "t", "o", "r", " ", "2", " ", "mem", "gimel">>,
     <<"L", "i", "p", "i", "t", "o", "r", " ", "A", "t", "o", "r", "v", "a", "s",
       "t", "a", "t", "i", "n">>,
     <<"F", "u", "s", "i", "d", " ", "l", "a", "s", "i", "x", " ", "F", "u", "r",
       "o", "s", "e", "m", "i", "d", "e">>,
     <<"E", "z", "e", "t", "r", "o", "l", " ", "T", "i", "m", "i", "b", "e">>,
     <<"A", "s", "p", "i", "r", "i", "n", " ">>}

\* the parts a summary of more than two parts goes on with
LaterSummaryParts ==
    {<<"L", "o", "s", "e", "c">>,
     <<"R", "a", "m", "i", "p", "r", "i", "l", " ", "1", "6", " ", "m", "g">>}

RECURSIVE SummaryTextsOfLen(_)
SummaryTextsOfLen(n) ==
    IF n = 1 THEN SummaryParts
    ELSE {t \o <<"\n">> \o part :
             t \in SummaryTextsOfLen(n - 1),
             part \in IF n = 2 THEN SummaryParts ELSE LaterSummaryParts}

SummaryTexts == {<<>>} \cup UNION {SummaryTextsOfLen(n) : n \in 1..MaxSummaryParts}

DraftAnswers ==
    {AnswerRaises, AnswerNoContent} \cup {AnswerText(s) : s \in SummaryTexts}

Passing == [overall_faithfulness_score |-> 9, chief_complaint_ok |-> TRUE]

Fabricated ==
    [overall_faithfulness_score |-> 9,
     fabricated_info |-> <<<<"a", "g", "e", " ", "7", "0">>>>]

ManyFindings ==
    [overall_faithfulness_score |-> 8,
     hallucinated_medications |-> <<<<"L", "o", "s", "e", "c">>>>,
     duplicate_medications |->
         <<PairList(<<<<"a">>, <<"b">>>>), PairString(<<"c">>)>>,
     suspicious_dosages |->
         <<<<"R", "a", "m", "i", "p", "r", "i", "l", " ", "1", "6", " ", "m", "g">>,
           <<"5", "0", "0">>>>,
     chief_complaint_ok |-> FALSE,
     chief_complaint_note |-> <<"n", "o", "t", "e">>,
     unrecognized_medications |-> <<<<"u">>>>,
     unrecognized_conditions |-> <<<<"v">>>>,
     misclassified_symptoms |-> <<<<"w">>>>]

ValidationDicts ==
    {<<>>,
     Passing,
     [overall_faithfulness_score |-> PassScore],
     [overall_faithfulness_score |-> PassScore - 1],
     Fabricated,
     ManyFindings}

ValidateAnswers ==
    {AnswerRaises, AnswerNoJson, AnswerBadJson}
    \cup {AnswerJson(d) : d \in ValidationDicts}

\* the least length a fixed summary must have to be accepted
MinFixed(summary) == (Len(summary) + 1) \div 2

\* what the client may answer to the fix request: the summary itself, the
\* summary cut to the least accepted length and to one character less, and
\* another text
FixAnswers(summary) ==
    {AnswerRaises,
     AnswerText(summary),
     AnswerText(FirstN(summary, MinFixed(summary))),
     AnswerText(<<"f", "i", "x", "e", "d", " ", "s", "u", "m", "m", "a", "r", "y", "\n">>)}
    \cup (IF MinFixed(summary) > 0
          THEN {AnswerText(FirstN(summary, MinFixed(summary) - 1))} ELSE {})

Transcriptions ==
    {<<>>, <<"[", "resh", "vav", "pe", "alef", "]", ":", " ", "l", "i", "p", "i",
             "t", "o", "r">>}

GenerateDraft == GenerateDraftFrom(DraftAnswers)

LlmValidate == LlmValidateFrom(ValidateAnswers)

LlmFix == LlmFixFrom(FixAnswers(raw_summary))

\* MedicalSummaryGenerator(gpt52_client) followed by the call
\* generate(transcription)
InitSummary ==
    /\ transcription \in Transcriptions
    /\ client_answers = NoAnswers
    /\ sreport = MedicalSummaryReport
    /\ raw_summary = <<>>
    /\ llm_validation = <<>>
    /\ corrected_summary = <<>>
    /\ final_summary = <<>>
    /\ generations = 1
    /\ spc = "start"
    /\ MergeIdle
    /\ AlignIdle
    /\ PostIdle
    /\ LaterIdle

NextSummary ==
    \/ GenerateDraft
    \/ DeterministicValidation
    \/ LlmValidate
    \/ LlmFix
    \/ InjectAndReturn

SpecSummary == InitSummary /\ [][NextSummary]_vars

(* Several calls of generate() on one MedicalSummaryGenerator, one after   *)
(* the other.                                                              *)

MaxGenerations == 2

FewDraftAnswers ==
    {AnswerText(<<"L", "i", "p", "i", "t", "o", "r", " ", "A", "t", "o", "r", "v",
                  "a", "s", "t", "a", "t", "i", "n">>),
     AnswerText(<<"R", "a", "m", "i", "p", "r", "i", "l", " ", "1", "6", " ", "m", "g">>)}

FewValidateAnswers == {AnswerRaises, AnswerJson(Passing), AnswerJson(Fabricated)}

GenerateDraftFew == GenerateDraftFrom(FewDraftAnswers)

LlmValidateFew == LlmValidateFrom(FewValidateAnswers)

LlmFixFew == LlmFixFrom({AnswerText(raw_summary)})

\* the caller calls generate(transcription) again after a call has returned
GenerateAgain ==
    /\ spc = "done"
    /\ generations < MaxGenerations
    /\ generations' = generations + 1
    /\ transcription' \in Transcriptions
    /\ client_answers' = NoAnswers
    /\ raw_summary' = <<>>
    /\ llm_validation' = <<>>
    /\ corrected_summary' = <<>>
    /\ final_summary' = <<>>
    /\ spc' = "start"
    /\ UNCHANGED sreport
    /\ UNCHANGED <<mergeVars, alignVars, postVars, laterVars>>

NextSummaryCalls ==
    \/ GenerateDraftFew
    \/ DeterministicValidation
    \/ LlmValidateFew
    \/ LlmFixFew
    \/ InjectAndReturn
    \/ GenerateAgain

SpecSummaryCalls == InitSummary /\ [][NextSummaryCalls]_vars

(* Audio chunking: MedicalTranscriber.split_audio                          *)
(* (medical_transcription/transcribe.py) as a state machine: "start" is    *)
(* the call with the duration of the audio read, "loop" the test of the    *)
(* while loop, "done" the return.  A chunk is <<start_ms, end_ms,          *)
(* is_last>>; its path is made of chunk_num and holds no other state.      *)

MAX_CHUNK_DURATION_MS == 4 * 60 * 1000

OVERLAP_DURATION_MS == 30 * 1000

\* the test `duration_ms <= MAX_CHUNK_DURATION_MS` and what follows it up
\* to the loop
SplitEnter ==
    /\ cpc = "start"
    /\ IF duration_ms <= MAX_CHUNK_DURATION_MS
       THEN /\ chunks' = <<<<0, duration_ms, TRUE>>>>
            /\ cpc' = "done"
       ELSE /\ chunks' = <<>>
            /\ cpc' = "loop"
    /\ start_ms' = 0
    /\ chunk_num' = 0
    /\ UNCHANGED duration_ms
    /\ UNCHANGED besidesSplit

\* the next chunk starts where this one ends
SplitLoop_NoOverlap ==
    /\ cpc = "loop"
    /\ IF start_ms < duration_ms
       THEN LET end_ms  == Min2(start_ms + MAX_CHUNK_DURATION_MS, duration_ms)
                is_last == end_ms >= duration_ms
            IN  /\ chunks' = Append(chunks, <<start_ms, end_ms, is_last>>)
                /\ IF ~is_last
                   THEN /\ start_ms' = end_ms
                        /\ chunk_num' = chunk_num + 1
                        /\ cpc' = "loop"
                   ELSE /\ cpc' = "done"
                        /\ UNCHANGED <<start_ms, chunk_num>>
       ELSE /\ cpc' = "done"
            /\ UNCHANGED <<chunks, start_ms, chunk_num>>
    /\ UNCHANGED duration_ms
    /\ UNCHANGED besidesSplit

\* one test of `while start_ms < duration_ms` and, when it holds, one pass
\* through the body
SplitLoop ==
    /\ cpc = "loop"
    /\ IF start_ms < duration_ms
       THEN LET end_ms  == Min2(start_ms + MAX_CHUNK_DURATION_MS, duration_ms)
                is_last == end_ms >= duration_ms
            IN  /\ chunks' = Append(chunks, <<start_ms, end_ms, is_last>>)
                /\ IF ~is_last
                   THEN /\ start_ms' = end_ms - OVERLAP_DURATION_MS
                        /\ chunk_num' = chunk_num + 1
                        /\ cpc' = "loop"
                   ELSE /\ cpc' = "done"
                        /\ UNCHANGED <<start_ms, chunk_num>>
       ELSE /\ cpc' = "done"
            /\ UNCHANGED <<chunks, start_ms, chunk_num>>
    /\ UNCHANGED duration_ms
    /\ UNCHANGED besidesSplit

(* Durations of the audio: the multiples of the overlap up to a bound, one *)
(* millisecond more and one millisecond less than the next multiple.       *)

MaxOverlaps == 24

Durations ==
    {n * OVERLAP_DURATION_MS + extra :
        n \in 0..MaxOverlaps, extra \in {0, 1, OVERLAP_DURATION_MS - 1}}

InitSplit ==
    /\ duration_ms \in Durations
    /\ chunks = <<>>
    /\ start_ms = 0
    /\ chunk_num = 0
    /\ cpc = "start"
    /\ CoreIdle /\ SttIdle /\ TraceIdle /\ ThreadsIdle /\ WebIdle

NextSplit ==
    \/ SplitEnter
    \/ SplitLoop

\* split_audio runs on one thread and nothing suspends it: a step that can
\* be taken is taken
SpecSplit == InitSplit /\ [][NextSplit]_vars /\ WF_vars(NextSplit)

----------------------------------------------------------------------------
(* Speech-to-text call: transcribe_with_timestamps (stt_timestamps.py)     *)

MAX_RETRIES == 5

FirstRetryDelay == 10

RetryDelayCap == 120

\* int(s) for a header value s: an optional sign and then digits only; None
\* stands for the ValueError int() raises for anything else
Unsigned(s) == IF s # <<>> /\ s[1] \in {"-", "+"} THEN Tail(s) ELSE s

IntOf(s) ==
    IF Unsigned(s) # <<>> /\ \A k \in 1..Len(Unsigned(s)) : Unsigned(s)[k] \in Digits
    THEN Some(IF s[1] = "-" THEN 0 - ToNat(Unsigned(s)) ELSE ToNat(Unsigned(s)))
    ELSE None

\* resp.headers.get("Retry-After", retry_delay) and then int(): the header
\* is a string, the default is already a number
RetryAfter(r, delay) ==
    IF r.retry_after = None THEN Some(delay) ELSE IntOf(r.retry_after[1])

Retryable(status_code) == status_code = 429 \/ status_code >= 500

\* the responses the service may give: a status, an optional Retry-After
\* header and a body that resp.json() and the parsing accept or not
StatusCodes == {200, 400, 428, 429, 430, 499, 500, 503}

HttpDate ==
    <<"W", "e", "d", ",", " ", "2", "1", " ", "O", "c", "t", " ", "2", "0",
      "2", "6", " ", "0", "7", ":", "2", "8", ":", "0", "0", " ", "G", "M", "T">>

RetryAfterHeaders ==
    {None, Some(<<"5">>), Some(<<"3", "0", "0">>), Some(<<"-", "1">>),
     Some(HttpDate)}

Responses ==
    [status_code : StatusCodes, retry_after : RetryAfterHeaders,
     body_parses : BOOLEAN]

\* lines 62-65 and 107-108: the credentials check and the loop's set-up
SttEnter ==
    /\ rpc = "start"
    /\ IF ~credentials
       THEN /\ rpc' = "RuntimeError"
            /\ UNCHANGED <<attempt, retry_delay>>
       ELSE /\ attempt' = 1
            /\ retry_delay' = FirstRetryDelay
            /\ rpc' = "post"
    /\ UNCHANGED <<credentials, resp, posts, waits>>
    /\ UNCHANGED besidesStt

\* lines 111-117: open the file and POST it; requests.post either raises
\* (connection error, timeout) or returns a response
SttPost ==
    /\ rpc = "post"
    /\ posts' = posts + 1
    /\ \/ /\ rpc' = "RequestException"
          /\ UNCHANGED resp
       \/ /\ \E r \in Responses : resp' = Some(r)
          /\ rpc' = "check"
    /\ UNCHANGED <<credentials, attempt, retry_delay, waits>>
    /\ UNCHANGED besidesStt

\* the for statement: the next attempt, or the statement after the loop
NextAttempt ==
    IF attempt < MAX_RETRIES
    THEN attempt' = attempt + 1 /\ rpc' = "post"
    ELSE attempt' = attempt /\ rpc' = "parse"

\* lines 119-141: what the loop does with the response; time.sleep(wait)
\* raises ValueError for a negative wait
SttCheck ==
    /\ rpc = "check"
    /\ LET r == resp[1]
           wait == RetryAfter(r, retry_delay)
       IN  IF r.status_code = 200
           THEN /\ rpc' = "parse"
                /\ UNCHANGED <<attempt, retry_delay, waits>>
           ELSE IF Retryable(r.status_code)
           THEN IF wait = None
                THEN /\ rpc' = "ValueError"
                     /\ UNCHANGED <<attempt, retry_delay, waits>>
                ELSE IF attempt = MAX_RETRIES
                THEN /\ rpc' = "RuntimeError"
                     /\ UNCHANGED <<attempt, retry_delay, waits>>
                ELSE IF wait[1] < 0
                THEN /\ rpc' = "ValueError"
                     /\ UNCHANGED <<attempt, retry_delay, waits>>
                ELSE /\ waits' = Append(waits, wait[1])
                     /\ retry_delay' = Min2(retry_delay * 2, RetryDelayCap)
                     /\ NextAttempt
           ELSE /\ rpc' = "RuntimeError"
                /\ UNCHANGED <<attempt, retry_delay, waits>>
    /\ UNCHANGED <<credentials, resp, posts>>
    /\ UNCHANGED besidesStt

\* lines 145-184: resp.json() and the parsing of the phrases, which raise
\* for a body that is not the JSON document expected
SttParse ==
    /\ rpc = "parse"
    /\ rpc' = IF resp[1].body_parses THEN "returned" ELSE "ParseError"
    /\ UNCHANGED <<credentials, attempt, retry_delay, resp, posts, waits>>
    /\ UNCHANGED besidesStt

SttEnded ==
    rpc \in {"returned", "RuntimeError", "ValueError", "RequestException",
             "ParseError"}

InitStt ==
    /\ credentials \in BOOLEAN
    /\ attempt = 0
    /\ retry_delay = 0
    /\ resp = None
    /\ posts = 0
    /\ waits = <<>>
    /\ rpc = "start"
    /\ CoreIdle /\ SplitIdle /\ TraceIdle /\ ThreadsIdle /\ WebIdle

NextStt == SttEnter \/ SttPost \/ SttCheck \/ SttParse

\* the call runs in one thread that nothing but the responses holds up
SpecStt == InitStt /\ [][NextStt]_vars /\ WF_vars(NextStt)

----------------------------------------------------------------------------
(* PipelineTrace as a state machine: recording, save and load              *)

\* the steps the callers time
TimedSteps == {"step_1_pure", "step_6c_summary_fix"}

start_timer(step_id) ==
    /\ tpc = "recording"
    /\ _step_timers' = [_step_timers EXCEPT ![step_id] = Some(clock)]
    /\ UNCHANGED <<clock, run_id, created_at, steps, add_step_calls,
                   trace_file, loaded, tpc, trace_given>>
    /\ UNCHANGED besidesTrace

MaxTraceSteps == 2

AddStepCall(step_id, text, chunk_index, metadata) ==
    /\ tpc = "recording"
    /\ Len(steps) < MaxTraceSteps
    /\ LET timed == step_id \in TimedSteps /\ _step_timers[step_id] # None
           duration == IF timed THEN clock - _step_timers[step_id][1] ELSE 0
       IN  /\ _step_timers' = IF timed
                              THEN [_step_timers EXCEPT ![step_id] = None]
                              ELSE _step_timers
           /\ steps' = add_step(steps, clock, duration, step_id, text,
                                chunk_index, metadata)
    /\ add_step_calls' = add_step_calls + 1
    /\ UNCHANGED <<clock, run_id, created_at, trace_file, loaded, tpc,
                   trace_given>>
    /\ UNCHANGED besidesTrace

save ==
    /\ tpc = "recording"
    /\ trace_file' = Some(json_dump(to_dict(run_id, created_at, steps)))
    /\ tpc' = "saved"
    /\ UNCHANGED <<clock, run_id, created_at, steps, _step_timers,
                   add_step_calls, loaded, trace_given>>
    /\ UNCHANGED besidesTrace

LoadTrace ==
    /\ tpc = "saved"
    /\ loaded' = Some(load(json_load(trace_file[1]), clock))
    /\ tpc' = "loaded"
    /\ UNCHANGED <<clock, run_id, created_at, steps, _step_timers,
                   add_step_calls, trace_file, trace_given>>
    /\ UNCHANGED besidesTrace

MaxClock == 2

\* time passes, 1/100 s at a time
Tick ==
    /\ tpc \in {"recording", "saved"}
    /\ clock < MaxClock
    /\ clock' = clock + 1
    /\ UNCHANGED <<run_id, created_at, steps, _step_timers, add_step_calls,
                   trace_file, loaded, tpc, trace_given>>
    /\ UNCHANGED besidesTrace

\* the arguments of the add_step calls: those of the test and of the
\* summary generator, whole-file and per-chunk steps, and metadata that
\* holds a tuple
AddStepCalls ==
    {[step_id |-> "step_1_pure", text |-> <<"a", "\n", "b">>,
      chunk_index |-> PyInt(0),
      metadata |-> PyDict(<<"model">>, <<PyStr("gpt-audio")>>)],
     [step_id |-> "step_1_pure", text |-> <<"c">>, chunk_index |-> PyInt(1),
      metadata |-> PyNone],
     [step_id |-> "step_4_chunks_merged", text |-> <<"a", "\n", "b", "\n">>,
      chunk_index |-> PyNone, metadata |-> PyNone],
     [step_id |-> "step_6c_summary_fix", text |-> <<>>,
      chunk_index |-> PyNone,
      metadata |-> PyDict(<<"task", "issues_fixed">>,
                          <<PyStr("summary_fix"), PyInt(1)>>)],
     [step_id |-> "step_6b_summary_validation", text |-> <<"s">>,
      chunk_index |-> PyNone,
      metadata |-> PyDict(<<"validation_passed", "faithfulness_score">>,
                          <<PyBool(TRUE), PyInt(9)>>)],
     [step_id |-> "step_0_chunking", text |-> <<>>, chunk_index |-> PyNone,
      metadata |-> PyDict(<<"range_ms">>,
                          <<PyTuple(<<PyInt(0), PyInt(240000)>>)>>)]}

StartTimer == \E step_id \in TimedSteps : start_timer(step_id)

AddStep ==
    \E c \in AddStepCalls :
        AddStepCall(c.step_id, c.text, c.chunk_index, c.metadata)

\* PipelineTrace(): run_id and created_at are the time of construction
InitTrace ==
    /\ clock \in 0..1
    /\ run_id = strftime(clock)
    /\ created_at = isoformat(clock)
    /\ steps = <<>>
    /\ _step_timers = [step_id \in TimedSteps |-> None]
    /\ add_step_calls = 0
    /\ trace_file = None
    /\ loaded = None
    /\ tpc = "recording"
    /\ trace_given = FALSE
    /\ CoreIdle /\ SplitIdle /\ SttIdle /\ ThreadsIdle /\ WebIdle

NextTrace == StartTimer \/ AddStep \/ save \/ LoadTrace \/ Tick

SpecTrace == InitTrace /\ [][NextTrace]_vars

----------------------------------------------------------------------------
(* process() with and without a trace                                      *)

\* the snapshot the pipeline adds before it calls process()
MergedSnapshot ==
    StepSnapshot(PyStr("step_4_chunks_merged"), PyStr("Chunk Merging"),
                 PyStr(<<"a", "\n", "a">>), PyNone, PyStr(isoformat(0)),
                 PyFloat(0), PyDict(<<>>, <<>>))

\* PostProcessor(gpt52_client) and a call process(text, use_llm, trace) with
\* no trace, a new trace or the trace of the steps before
InitStages ==
    /\ gpt52_client \in {"none", "client"}
    /\ report = PostProcessReport
    /\ report_id = 0
    /\ returned = <<>>
    /\ process_input \in CallTexts
    /\ use_llm \in BOOLEAN
    /\ current_text = process_input
    /\ stage_d_input = <<>>
    /\ llm = None
    /\ ppc = "start"
    /\ MergeIdle
    /\ AlignIdle
    /\ SummaryIdle
    /\ SplitIdle
    /\ SttIdle
    /\ ThreadsIdle
    /\ WebIdle
    /\ trace_given \in BOOLEAN
    /\ IF trace_given
       THEN /\ clock = 0
            /\ run_id = strftime(clock)
            /\ created_at = isoformat(clock)
            /\ steps \in {<<>>, <<MergedSnapshot>>}
            /\ _step_timers = [step_id \in TimedSteps |-> None]
            /\ add_step_calls = Len(steps)
            /\ trace_file = None
            /\ loaded = None
            /\ tpc = "recording"
       ELSE TraceIdle

SpecStages == InitStages /\ [][NextPost]_vars

----------------------------------------------------------------------------
(* process() called from two threads.  A PostProcessReport is an object on *)
(* the heap, self.report of a PostProcessor refers to one of them, and     *)
(* every `self.report` in process() and in the stages reads that attribute *)
(* when the statement runs.  A step is a statement of process(); a thread  *)
(* runs a stage without the other thread running in between.               *)

Threads == {1, 2}

\* the object self.report of the processor of call t refers to now
ReportOf(t) == processors[calls[t].self].report

\* line 113: self.report = PostProcessReport()
NewReport(t) ==
    /\ calls[t].pc = "start"
    /\ heap' = Append(heap, PostProcessReport)
    /\ processors' = [processors EXCEPT ![calls[t].self].report = Len(heap) + 1]
    /\ calls' = [calls EXCEPT ![t].pc = "extract"]
    /\ UNCHANGED besidesThreads

\* lines 116-117
ExtractBefore(t) ==
    /\ calls[t].pc = "extract"
    /\ heap' = [heap EXCEPT ![ReportOf(t)] =
                   [@ EXCEPT
                      !.stage_e_numbers_before = _extract_numbers(calls[t].text),
                      !.stage_e_medical_terms_before =
                          _extract_medical_terms(calls[t].text)]]
    /\ calls' = [calls EXCEPT ![t].pc = "A"]
    /\ UNCHANGED processors
    /\ UNCHANGED besidesThreads

ThreadStageA(t) ==
    /\ calls[t].pc = "A"
    /\ LET r == _stage_a_normalize(calls[t].text)
       IN  /\ heap' = [heap EXCEPT ![ReportOf(t)].stage_a_changes = @ \o r.changes]
           /\ calls' = [calls EXCEPT ![t].text = r.text, ![t].pc = "B"]
    /\ UNCHANGED processors
    /\ UNCHANGED besidesThreads

ThreadStageB(t) ==
    /\ calls[t].pc = "B"
    /\ LET r == _stage_b_spelling(calls[t].text)
       IN  /\ heap' = [heap EXCEPT
                          ![ReportOf(t)].stage_b_replacements = @ \o r.replacements]
           /\ calls' = [calls EXCEPT ![t].text = r.text, ![t].pc = "C"]
    /\ UNCHANGED processors
    /\ UNCHANGED besidesThreads

ThreadStageC(t) ==
    /\ calls[t].pc = "C"
    /\ LET r == _stage_c_deduplicate(calls[t].text)
       IN  /\ heap' = [heap EXCEPT
                          ![ReportOf(t)].stage_c_duplicates_removed =
                              @ + Len(r.duplicate_lines),
                          ![ReportOf(t)].stage_c_duplicate_lines =
                              @ \o r.duplicate_lines]
           /\ calls' = [calls EXCEPT ![t].text = r.text, ![t].pc = "D"]
    /\ UNCHANGED processors
    /\ UNCHANGED besidesThreads

\* what the client does in these calls: it raises or returns the text
ThreadOutcomes(t) == {ClientRaises, ClientContent(t)}

\* `if use_llm and self.gpt52_client:` holds
ThreadStageD(t) ==
    /\ calls[t].pc = "D"
    /\ calls[t].use_llm /\ processors[calls[t].self].gpt52_client # "none"
    /\ \E outcome \in ThreadOutcomes(calls[t].text) :
          LET r == _stage_d_semantic_fix(processors[calls[t].self].gpt52_client,
                                         calls[t].text, outcome)
          IN  /\ heap' = [heap EXCEPT
                             ![ReportOf(t)].stage_d_corrections = @ \o r.corrections]
              /\ calls' = [calls EXCEPT ![t].text = r.text, ![t].pc = "E",
                                        ![t].llm = Some(outcome)]
    /\ UNCHANGED processors
    /\ UNCHANGED besidesThreads

\* `if use_llm and self.gpt52_client:` does not hold
ThreadStageDSkipped(t) ==
    /\ calls[t].pc = "D"
    /\ ~(calls[t].use_llm /\ processors[calls[t].self].gpt52_client # "none")
    /\ calls' = [calls EXCEPT ![t].pc = "E"]
    /\ UNCHANGED <<heap, processors>>
    /\ UNCHANGED besidesThreads

ThreadStageE(t) ==
    /\ calls[t].pc = "E"
    /\ heap' = [heap EXCEPT ![ReportOf(t)] = _stage_e_validate(calls[t].text, @)]
    /\ calls' = [calls EXCEPT ![t].pc = "return"]
    /\ UNCHANGED processors
    /\ UNCHANGED besidesThreads

\* line 155: return text, self.report
ThreadReturn(t) ==
    /\ calls[t].pc = "return"
    /\ calls' = [calls EXCEPT ![t].pc = "done", ![t].returned = ReportOf(t)]
    /\ UNCHANGED <<heap, processors>>
    /\ UNCHANGED besidesThreads

\* the texts of the two calls
ThreadTexts ==
    {<<<<"I", "G", "G", "4", " ", "3", ".", "5", "%">>, <<"a", "\n", "a">>>>,
     <<<<"het", "vav", "mem", "samekh", " ", "7", "\n", " ">>,
       <<"I", "G", "G", "4", " ", "3", ".", "5", "%">>>>}

\* two PostProcessor objects, made with or without a client, and two calls
\* of process(), on one of them or on one each
InitThreads ==
    /\ heap = <<PostProcessReport, PostProcessReport>>
    /\ \E client \in {"none", "client"} :
          processors = [p \in {1, 2} |-> [gpt52_client |-> client, report |-> p]]
    /\ \E texts \in ThreadTexts, second \in {1, 2}, use \in BOOLEAN :
          calls = [t \in Threads |->
                      [self |-> IF t = 1 THEN 1 ELSE second,
                       input |-> texts[t], text |-> texts[t], use_llm |-> use,
                       llm |-> None, pc |-> "start", returned |-> 0]]
    /\ CoreIdle /\ SplitIdle /\ SttIdle /\ TraceIdle /\ WebIdle

NextThreads ==
    \E t \in Threads :
        \/ NewReport(t)
        \/ ExtractBefore(t)
        \/ ThreadStageA(t)
        \/ ThreadStageB(t)
        \/ ThreadStageC(t)
        \/ ThreadStageD(t)
        \/ ThreadStageDSkipped(t)
        \/ ThreadStageE(t)
        \/ ThreadReturn(t)

SpecThreads == InitThreads /\ [][NextThreads]_vars

----------------------------------------------------------------------------
(* Web backend: the jobs tracker and _run_pipeline (web/backend/main.py)   *)

PIPELINE_STEP_DEFS ==
    <<<<"step_0_chunking", "Audio Chunking">>,
      <<"step_1_pure", "Pure Transcription">>,
      <<"step_2_diarized", "Diarized Transcription">>,
      <<"step_3_merged", "GPT Merge (per chunk)">>,
      <<"step_4_chunks_merged", "Chunk Merging">>,
      <<"step_5a_normalized", "Normalization">>,
      <<"step_5b_spelling", "Spelling Fixes">>,
      <<"step_5c_deduplicated", "Deduplication">>,
      <<"step_5d_semantic", "Semantic Fix (LLM)">>,
      <<"step_5e_validated", "Validation (Final)">>,
      <<"step_6a_summary_draft", "Medical Summary (LLM)">>,
      <<"step_6b_summary_validation", "Summary Validation">>>>

_init_job_steps ==
    [k \in 1..Len(PIPELINE_STEP_DEFS) |->
        [step_id |-> PIPELINE_STEP_DEFS[k][1],
         step_name |-> PIPELINE_STEP_DEFS[k][2], status |-> "pending"]]

\* the value of jobs[job_id]["progress"]: a message, and the step name
\* formatted into it
Progress(message, step_name) == [message |-> message, step_name |-> step_name]

\* the entry upload_audio and rerun_pipeline make
NewJob(progress) ==
    [status |-> "pending", run_id |-> None, error |-> None,
     progress |-> Progress(progress, ""), current_step |-> None,
     steps |-> _init_job_steps]

\* jobs is a dict: None for a job_id that is not in it
_update_job_step(the_jobs, job_id, step_id, status) ==
    IF the_jobs[job_id] = None THEN the_jobs
    ELSE LET job == the_jobs[job_id][1]
             hits == {k \in 1..Len(job.steps) : job.steps[k].step_id = step_id}
             marked == IF hits = {} THEN job.steps
                       ELSE [job.steps EXCEPT ![SetMin(hits)].status = status]
             named == {k \in 1..Len(PIPELINE_STEP_DEFS) :
                          PIPELINE_STEP_DEFS[k][1] = step_id}
         IN  [the_jobs EXCEPT ![job_id] = Some(
                 IF status = "running"
                 THEN [job EXCEPT
                          !.steps = marked,
                          !.current_step = Some(step_id),
                          !.progress =
                              IF named = {} THEN @
                              ELSE Progress("Running: ",
                                       PIPELINE_STEP_DEFS[SetMin(named)][2])]
                 ELSE [job EXCEPT !.steps = marked])]

\* the part of _hooked_add_step of the run of job_id before it calls
\* _orig_add_step
_hooked_add_step(the_jobs, job_id, step_id) ==
    LET settled ==
            IF the_jobs[job_id] = None THEN the_jobs
            ELSE [the_jobs EXCEPT ![job_id] = Some(
                     [@[1] EXCEPT !.steps =
                         [k \in 1..Len(@) |->
                             IF @[k].status = "running"
                             THEN [@[k] EXCEPT !.status = "completed"]
                             ELSE @[k]]])]
    IN  _update_job_step(settled, job_id, step_id, "running")

\* A value of PipelineTrace.add_step is the original method or the
\* _hooked_add_step of a run, which holds that run's _orig_add_step: it is
\* written as the job ids of the hooks from the outermost in, <<>> being
\* the original method.  The jobs tracker after a call of the method:
RECURSIVE CallAddStep(_, _, _)
CallAddStep(method, the_jobs, step_id) ==
    IF method = <<>> THEN the_jobs
    ELSE CallAddStep(Tail(method),
                     _hooked_add_step(the_jobs, method[1], step_id), step_id)

JobIds == {1, 2}

\* the number of add_step calls transcribe() makes in a run, and their steps
MaxPipelineSteps == 2

PipelineCalls == [k \in 1..MaxPipelineSteps |-> PIPELINE_STEP_DEFS[k][1]]

\* upload_audio and rerun_pipeline: the entry and the background task
StartJob(j) ==
    /\ runs[j].pc = "none"
    /\ \E progress \in {"Uploaded, queued for processing", "Re-run queued"} :
          jobs' = [jobs EXCEPT ![j] = Some(NewJob(progress))]
    /\ runs' = [runs EXCEPT ![j].pc = "queued"]
    /\ UNCHANGED class_add_step
    /\ UNCHANGED besidesWeb

\* lines 259-267: up to _orig_add_step = trace_module.PipelineTrace.add_step
RunPipelineEnter(j) ==
    /\ runs[j].pc = "queued"
    /\ jobs' = [jobs EXCEPT ![j] = Some(
                   [@[1] EXCEPT !.status = "running",
                                !.progress = Progress("Starting pipeline...", "")])]
    /\ runs' = [runs EXCEPT ![j].pc = "entered",
                            ![j]._orig_add_step = Some(class_add_step)]
    /\ UNCHANGED class_add_step
    /\ UNCHANGED besidesWeb

\* line 278: trace_module.PipelineTrace.add_step = _hooked_add_step
InstallHook(j) ==
    /\ runs[j].pc = "entered"
    /\ class_add_step' = <<j>> \o runs[j]._orig_add_step[1]
    /\ runs' = [runs EXCEPT ![j].pc = "transcribe"]
    /\ UNCHANGED jobs
    /\ UNCHANGED besidesWeb

\* transcriber.transcribe(...) calls trace.add_step(step_id, text): the
\* method is looked up in the class when it is called
PipelineAddStep(j) ==
    /\ runs[j].pc = "transcribe"
    /\ runs[j].added < MaxPipelineSteps
    /\ jobs' = CallAddStep(class_add_step, jobs, PipelineCalls[runs[j].added + 1])
    /\ runs' = [runs EXCEPT ![j].added = @ + 1]
    /\ UNCHANGED class_add_step
    /\ UNCHANGED besidesWeb

\* transcriber.transcribe(...) returns after its last step or raises
TranscribeEnds(j) ==
    /\ runs[j].pc = "transcribe"
    /\ \/ runs[j].added = MaxPipelineSteps /\ runs' = [runs EXCEPT ![j].pc = "finally"]
       \/ runs' = [runs EXCEPT ![j].pc = "finally", ![j].raised = TRUE]
    /\ UNCHANGED <<jobs, class_add_step>>
    /\ UNCHANGED besidesWeb

\* line 283: trace_module.PipelineTrace.add_step = _orig_add_step
RestoreHook(j) ==
    /\ runs[j].pc = "finally"
    /\ class_add_step' = runs[j]._orig_add_step[1]
    /\ runs' = [runs EXCEPT ![j].pc = "restored"]
    /\ UNCHANGED jobs
    /\ UNCHANGED besidesWeb

\* lines 286-292
MarkCompleted(j) ==
    /\ runs[j].pc = "restored"
    /\ ~runs[j].raised
    /\ jobs' = [jobs EXCEPT ![j] = Some(
                   [@[1] EXCEPT
                       !.steps = [k \in 1..Len(@) |-> [@[k] EXCEPT !.status = "completed"]],
                       !.status = "completed",
                       !.run_id = Some("run"),
                       !.progress = Progress("Done", ""),
                       !.current_step = None])]
    /\ runs' = [runs EXCEPT ![j].pc = "returned"]
    /\ UNCHANGED class_add_step
    /\ UNCHANGED besidesWeb

\* lines 293-295
MarkFailed(j) ==
    /\ runs[j].pc = "restored"
    /\ runs[j].raised
    /\ jobs' = [jobs EXCEPT ![j] = Some(
                   [@[1] EXCEPT !.status = "failed", !.error = Some("error")])]
    /\ runs' = [runs EXCEPT ![j].pc = "returned"]
    /\ UNCHANGED class_add_step
    /\ UNCHANGED besidesWeb

\* the server has started: no job, and PipelineTrace.add_step as trace.py
\* defines it
InitWeb ==
    /\ jobs = [j \in JobIds |-> None]
    /\ class_add_step = <<>>
    /\ runs = [j \in JobIds |->
                  [pc |-> "none", _orig_add_step |-> None, added |-> 0,
                   raised |-> FALSE]]
    /\ CoreIdle /\ SplitIdle /\ SttIdle /\ TraceIdle /\ ThreadsIdle

\* the background tasks run in the threads of the server's pool
NextWeb ==
    \E j \in JobIds :
        \/ StartJob(j)
        \/ RunPipelineEnter(j)
        \/ InstallHook(j)
        \/ PipelineAddStep(j)
        \/ TranscribeEnds(j)
        \/ RestoreHook(j)
        \/ MarkCompleted(j)
        \/ MarkFailed(j)

SpecWeb == InitWeb /\ [][NextWeb]_vars

----------------------------------------------------------------------------
(* Properties of the Chunk Overlap Merger (checked under SpecMerge)        *)

\* a pairwise merge has run: merged is the merge of chunk1 and chunk2
PairMerged == mi >= 2

\* the lengths k >= min_overlap for which the last k characters of chunk1
\* are exactly the first k characters of chunk2 (whole texts, no window)
SharedLens ==
    {k \in min_overlap..Min2(Len(chunk1), Len(chunk2)) :
        SuffixIsPrefix(chunk1, chunk2, k)}

\* those of them the search window can hold
CappedSharedLens == {k \in SharedLens : k <= max_overlap}

\* C1 (as stated): whenever some suffix of left of length >= min_overlap is
\* a prefix of right, the merge is left, a newline, and right without its
\* largest such shared prefix.
C1_AnySharedLengthRemoved ==
    (PairMerged /\ SharedLens # {}) =>
        merged = chunk1 \o <<"\n">> \o DropN(chunk2, SetMax(SharedLens))

\* C1 (amended): whenever some suffix of left whose length is between
\* min_overlap (50) and max_overlap (800) is a prefix of right, the merge is
\* left, a newline, and right without the largest such shared prefix of
\* length at most max_overlap.
C1_LargestOverlapRemoved ==
    (PairMerged /\ CappedSharedLens # {}) =>
        merged = chunk1 \o <<"\n">> \o DropN(chunk2, SetMax(CappedSharedLens))

\* C1 witness: a pair with several shared lengths was merged and the largest
\* one, not the first one, was cut from right.
C1_Witness ==
    /\ PairMerged
    /\ Cardinality(CappedSharedLens) > 1
    /\ Len(merged) = Len(chunk1) + 1 + Len(chunk2) - SetMax(CappedSharedLens)

\* the last 40 characters of chunk1 are the first 40 of chunk2, and no longer
\* suffix of chunk1 is a prefix of chunk2
ScenarioApplies ==
    /\ PairMerged
    /\ ScenarioOverlap <= Min2(Len(chunk1), Len(chunk2))
    /\ SuffixIsPrefix(chunk1, chunk2, ScenarioOverlap)
    /\ \A k \in (ScenarioOverlap + 1)..Min2(Len(chunk1), Len(chunk2)) :
          ~SuffixIsPrefix(chunk1, chunk2, k)

\* C2 (as stated): two chunks whose last / first 40 characters are equal
\* merge into a text of length len(left) + len(right) - 40 + 1.
C2_FortyCharOverlapRemoved ==
    ScenarioApplies =>
        Len(merged) = Len(chunk1) + Len(chunk2) - ScenarioOverlap + 1

\* C2 (amended): two chunks whose last / first n characters are equal, n
\* the largest such length with min_overlap <= n <= max_overlap, merge into
\* a text of length len(left) + len(right) - n + 1 that holds the shared n
\* characters once at the seam, followed by the newline.
C2_OverlapLengthAccounting ==
    (PairMerged /\ CappedSharedLens # {}) =>
        LET n == SetMax(CappedSharedLens)
            L == Len(chunk1)
        IN  /\ Len(merged) = L + Len(chunk2) - n + 1
            /\ SubSeq(merged, L - n + 1, L) = SubSeq(chunk2, 1, n)
            /\ merged[L + 1] = "\n"

\* C2 witness: a pair overlapping in exactly min_overlap characters was
\* merged, and text of right remains after the seam.
C2_Witness ==
    /\ PairMerged
    /\ CappedSharedLens = {min_overlap}
    /\ Len(chunk2) > min_overlap
    /\ Len(merged) = Len(chunk1) + Len(chunk2) - min_overlap + 1

\* some string of length >= min_overlap occurs in both chunk1 and chunk2
CommonSubstring ==
    \E p \in 0..(Len(chunk1) - min_overlap) :
        \E q \in 0..(Len(chunk2) - min_overlap) :
            \A k \in 1..min_overlap : chunk1[p + k] = chunk2[q + k]

\* C3: when left and right share no common substring of length >=
\* min_overlap, the merge has length >= len(left) + len(right) + 1.
C3_NoOverlapKeepsEverything ==
    PairMerged =>
        \/ Len(merged) >= Len(chunk1) + Len(chunk2) + 1
        \/ CommonSubstring

\* the number of characters of chunk2 the merge left out
Omitted == Len(chunk1) + 1 + Len(chunk2) - Len(merged)

\* C4: the merge holds all of left unchanged, and the characters of right
\* it leaves out are a prefix of right that repeats the end of left.
C4_OnlyDuplicatedPrefixOmitted ==
    PairMerged =>
        /\ Omitted \in 0..Len(chunk2)
        /\ merged = chunk1 \o <<"\n">> \o DropN(chunk2, Omitted)
        /\ Omitted > 0 =>
              /\ Omitted <= Len(chunk1)
              /\ SuffixIsPrefix(chunk1, chunk2, Omitted)

----------------------------------------------------------------------------
(* Properties of the Timestamp Aligner (checked under SpecAlign)           *)

\* the flattened word list of final_text and its label records
FlatWords == _strip_speaker_labels(final_text).words

FlatLabels == _strip_speaker_labels(final_text).labels

\* C5: the output of align_timestamps has exactly one entry per word of the
\* flattened word list of final_text, in the same order, on the matching
\* path and on the fallback path.
C5_AlignmentComplete ==
    apc = "done" =>
        /\ Len(aligned) = Len(FlatWords)
        /\ \A k \in 1..Len(aligned) : aligned[k].word = FlatWords[k]

\* C5 witness: an alignment on the matching path whose output holds a
\* matched word and an interpolated word.
C5_Witness ==
    /\ apc = "done"
    /\ stt_words # <<>>
    /\ \E k \in 1..Len(aligned) : aligned[k].is_interpolated
    /\ \E k \in 1..Len(aligned) : ~aligned[k].is_interpolated

\* C6: start_ms is non-decreasing along the output of align_timestamps
\* (the offsets of stt_words are non-decreasing, durations are arbitrary).
C6_StartMsNonDecreasing ==
    apc = "done" =>
        \A k \in 1..(Len(aligned) - 1) :
            (aligned[k].start_ms # None /\ aligned[k + 1].start_ms # None) =>
                aligned[k].start_ms[1] <= aligned[k + 1].start_ms[1]

\* the label of the last label record placed at or before word idx (0-based)
SpeakerFromLabels(idx) ==
    LET before == {j \in 1..Len(FlatLabels) :
                      FlatLabels[j].before_word_index <= idx}
    IN  IF before = {} THEN None ELSE Some(FlatLabels[SetMax(before)].label)

\* C7: when stt_words is empty or final_text has no words, the call ends
\* and returns every word of final_text with no timestamps, marked
\* interpolated, its speaker resolved from the labels of final_text.
C7_FallbackUnaligned ==
    (apc = "done" /\ (stt_words = <<>> \/ FlatWords = <<>>)) =>
        /\ Len(aligned) = Len(FlatWords)
        /\ \A k \in 1..Len(aligned) :
              /\ aligned[k].word = FlatWords[k]
              /\ aligned[k].start_ms = None
              /\ aligned[k].end_ms = None
              /\ aligned[k].is_interpolated
              /\ aligned[k].speaker = SpeakerFromLabels(k - 1)

\* C7 witness: a fallback result holding a word with a speaker and a word
\* before the first label.
C7_Witness ==
    /\ apc = "done"
    /\ stt_words = <<>>
    /\ \E k \in 1..Len(aligned) : aligned[k].speaker # None
    /\ \E k \in 1..Len(aligned) : aligned[k].speaker = None

\* the maximal runs of interpolated words of the output, as pairs of the
\* first and the last position
GapRuns ==
    {r \in (1..Len(aligned)) \X (1..Len(aligned)) :
        /\ r[1] <= r[2]
        /\ \A p \in r[1]..r[2] : aligned[p].is_interpolated
        /\ (r[1] > 1 => ~aligned[r[1] - 1].is_interpolated)
        /\ (r[2] < Len(aligned) => ~aligned[r[2] + 1].is_interpolated)}

\* end_ms of the matched word before the run, 0 when there is none
LeftEnd(r) == IF r[1] > 1 THEN aligned[r[1] - 1].end_ms[1] ELSE 0

\* start_ms of the matched word after the run, and 200 ms per word of the
\* run after LeftEnd when there is none
RightStart(r) ==
    IF r[2] < Len(aligned) THEN aligned[r[2] + 1].start_ms[1]
    ELSE LeftEnd(r) + (r[2] - r[1] + 1) * DefaultWordMs

WidthOf(p) == aligned[p].end_ms[1] - aligned[p].start_ms[1]

\* C24: after an alignment of a non-empty word list with a non-empty text
\* every word has start_ms <= end_ms; the words of every maximal run of
\* interpolated words have consecutive intervals (the end of one is the
\* start of the next) of equal width, up to the rounding to whole
\* milliseconds, that lie between the end of the matched word before the
\* run and the start of the matched word after it.
C24_GapsInterpolated ==
    (apc = "done" /\ stt_words # <<>> /\ FlatWords # <<>>) =>
        /\ \A p \in 1..Len(aligned) :
              /\ aligned[p].start_ms # None
              /\ aligned[p].end_ms # None
              /\ aligned[p].start_ms[1] <= aligned[p].end_ms[1]
        /\ \A r \in GapRuns :
              /\ \A p \in r[1]..r[2] :
                    /\ LeftEnd(r) <= aligned[p].start_ms[1]
                    /\ aligned[p].end_ms[1] <= RightStart(r)
              /\ \A p \in r[1]..(r[2] - 1) :
                    aligned[p].end_ms[1] = aligned[p + 1].start_ms[1]
              /\ \A p, q \in r[1]..r[2] : WidthOf(p) - WidthOf(q) <= 1

\* the characters the class of _normalize_word lists one by one: the
\* punctuation marks (the dashes and the Hebrew marks do not occur in the
\* words used here)
ListedPunctuation == ClassSingles \cup {"'", "-"}

NotListedPunctuation(c) == c \notin ListedPunctuation

\* the word without its punctuation marks, in lower case
PlainWord(w) ==
    LET kept == Strip(SelectSeq(w, NotListedPunctuation))
    IN  [k \in 1..Len(kept) |-> LowerChar(kept[k])]

\* the positions of stt_words whose times output word p carries
DirectSources(p) ==
    {j \in 1..Len(stt_words) :
        /\ aligned[p].start_ms = Some(stt_words[j].offset_ms)
        /\ aligned[p].end_ms = Some(stt_words[j].offset_ms + stt_words[j].duration_ms)}

\* C25: _normalize_word takes only the punctuation marks out of a word and
\* lowers its case, and a word of the output that is not interpolated
\* carries the times of an STT word that is equal to it after that
\* normalization.
C25_DirectMatchesAreTextMatches ==
    apc = "done" =>
        /\ \A k \in 1..Len(FlatWords) :
              _normalize_word(FlatWords[k]) = PlainWord(FlatWords[k])
        /\ \A p \in 1..Len(aligned) :
              ~aligned[p].is_interpolated =>
                  \E j \in DirectSources(p) :
                      PlainWord(stt_words[j].word) = PlainWord(aligned[p].word)

\* for every word of the non-blank lines from line number line_idx on, the
\* label of the nearest labelled line at or before its line (speaker is
\* the label in force before these lines) and the number of its line
RECURSIVE WordsByLine(_, _, _)
WordsByLine(lines, line_idx, speaker) ==
    IF lines = <<>> THEN <<>>
    ELSE LET m   == SpeakerLabelMatch(Head(lines))
             now == IF m = None THEN speaker ELSE Some(m[1].label)
             n   == Len(SplitWords(LineBody(Head(lines))))
         IN  [k \in 1..n |-> [speaker |-> now, line_index |-> Some(line_idx)]]
             \o WordsByLine(Tail(lines), line_idx + 1, now)

\* C26: every word of the output of align_timestamps has as speaker the
\* label of the nearest labelled line at or before its own line (None
\* before the first label) and as line_index the number of its line among
\* the non-blank lines of final_text.
C26_SpeakerAndLineAttached ==
    apc = "done" =>
        LET expected == WordsByLine(NonBlankLines(final_text), 0, None)
        IN  /\ Len(aligned) = Len(expected)
            /\ \A p \in 1..Len(aligned) :
                  /\ aligned[p].speaker = expected[p].speaker
                  /\ aligned[p].line_index = expected[p].line_index

----------------------------------------------------------------------------
(* Properties of the web backend                                            *)

\* no _run_pipeline that was started is still running
NoRunInProgress ==
    \A j \in JobIds : runs # <<>> => runs[j].pc \in {"none", "queued", "returned"}

\* C27: after every _run_pipeline invocation that was started has finished,
\* under any interleaving of the background jobs, PipelineTrace.add_step is
\* the original method again and no job's _hooked_add_step is installed
C27_HookRestored ==
    (NoRunInProgress /\ \E j \in JobIds : runs # <<>> /\ runs[j].pc = "returned")
        => class_add_step = <<>>

\* a step of the run of job j leaves the entries of the other jobs as
\* they are
OwnEntryOnly ==
    \A j \in JobIds :
        runs'[j] # runs[j] => \A k \in JobIds \ {j} : jobs'[k] = jobs[k]

CompletedStaysCompleted ==
    \A j \in JobIds :
        (jobs # <<>> /\ jobs[j] # None /\ jobs[j][1].status = "completed") =>
            /\ \A k \in 1..Len(jobs[j][1].steps) :
                   jobs[j][1].steps[k].status = "completed"
            /\ jobs[j][1].current_step = None

\* C28: the add_step calls of one job's pipeline run change only that
\* job's entry in the jobs tracker; under any interleaving of the runs no
\* job's steps are changed by another job's run, and a job with status
\* "completed" keeps all its steps "completed" and its current_step null
C28_JobProgressIsolated ==
    /\ [][OwnEntryOnly]_vars
    /\ [](CompletedStaysCompleted)

----------------------------------------------------------------------------
(* Properties of the post-processing pipeline (checked under SpecPost)     *)

\* stage D has run with a client: llm holds what the client did
StageDRan == ppc \in {"E", "done", "raised"} /\ llm # None

\* the client's call failed, or its result has fewer than 90% of the
\* characters of the text stage D was given
ClientFailed ==
    \/ llm[1].kind \in {"raises", "no_content"}
    \/ /\ llm[1].kind = "content"
       /\ 10 * Len(llm[1].content) < 9 * Len(stage_d_input)

\* C8: when the rewrite client raises, or returns a result with fewer than
\* 90% of the characters of the input, _stage_d_semantic_fix returns exactly
\* its input text, appends one entry to report.stage_d_corrections and lets
\* no exception out.
C8_RewriteGateFallback ==
    (StageDRan /\ ClientFailed) =>
        /\ ppc # "raised"
        /\ current_text = stage_d_input
        /\ Len(report.stage_d_corrections) = 1

\* C8 witness: stage D has just rejected a non-empty result one character
\* short of the least accepted length.
C8_Witness ==
    /\ ppc = "E"
    /\ llm # None
    /\ llm[1].kind = "content"
    /\ llm[1].content # <<>>
    /\ 10 * Len(llm[1].content) < 9 * Len(stage_d_input)
    /\ 10 * (Len(llm[1].content) + 1) >= 9 * Len(stage_d_input)

\* process() has returned and stage D did not change the text: it was
\* skipped or the client returned its input
NoRewrite ==
    /\ ppc = "done"
    /\ \/ llm = None
       \/ llm[1].kind = "content" /\ llm[1].content = stage_d_input

WarningKinds == {report.stage_e_warnings[k].kind : k \in 1..Len(report.stage_e_warnings)}

\* C9: a run of process() without a rewrite ends with no "Numbers
\* changed/missing" warning and no "Medical terms missing" warning.
C9_NoRewriteNothingMissing ==
    NoRewrite =>
        /\ "Numbers changed/missing" \notin WarningKinds
        /\ "Medical terms missing" \notin WarningKinds

\* the numbers and the medical terms extracted from the argument of
\* process() that are not extracted from the text it returns
LostNumbers ==
    Range(_extract_numbers(process_input)) \ Range(_extract_numbers(current_text))

LostTerms ==
    _extract_medical_terms(process_input) \ _extract_medical_terms(current_text)

\* C10: no exception leaves process(): a call is always before one of its
\* stages or has returned; and on return report.validation_passed is false
\* exactly when a number or a medical term of the input is absent from the
\* output, so the advisory warnings alone leave it true.
C10_ValidationIsData ==
    /\ ppc \in {"start", "A", "B", "C", "D", "E", "done"}
    /\ ppc = "done" =>
          (report.validation_passed <=> (LostNumbers = {} /\ LostTerms = {}))

\* C10 witness: a returned report that holds the three advisory warnings
\* and has passed validation.
C10_Witness ==
    /\ ppc = "done"
    /\ report.validation_passed
    /\ {"New medical terms introduced", "lines without speaker tags",
        "Speaker imbalance"} \subseteq WarningKinds

----------------------------------------------------------------------------
(* Properties of the stages as functions (checked under SpecPost)          *)

\* C11: applying _stage_a_normalize to its own output gives that output
\* again: after stage A, the text is a fixed point of the stage.
C11_NormalizeIdempotent ==
    ppc = "B" => _stage_a_normalize(current_text).text = current_text

\* the text stage C is given in this call
StageCInput == _stage_b_spelling(_stage_a_normalize(process_input).text).text

Fingerprints(t) == {_get_fingerprint(line) : line \in Range(SplitLines(t))}

\* C12: _stage_c_deduplicate returns no more lines than it was given, and
\* the fingerprint of every line it was given is the fingerprint of a line
\* it returns, so a removed line always has the fingerprint of a kept one.
C12_DedupKeepsFingerprints ==
    ppc = "D" =>
        /\ Len(SplitLines(current_text)) <= Len(SplitLines(StageCInput))
        /\ Fingerprints(StageCInput) \subseteq Fingerprints(current_text)

\* the pairs of a protected term and a dictionary key inside it
ProtectedKeys ==
    {p \in PROTECTED_MEDICAL_TERMS
            \X {SPELLING_FIXES[k][1] : k \in 1..Len(SPELLING_FIXES)} :
        Contains(p[1], p[2])}

\* L with each final-letter form replaced by its medial form
FoldLine(L) == [k \in 1..Len(L) |-> FoldFinal(L[k])]

\* C14: for every line L stage C is given, _get_fingerprint(L) is the
\* fingerprint of L followed by a space, and is the fingerprint of L with
\* its final-letter forms replaced by the medial forms.
C14_FingerprintFold ==
    ppc = "C" =>
        \A L \in Range(SplitLines(current_text)) :
            /\ _get_fingerprint(L) = _get_fingerprint(L \o <<" ">>)
            /\ _get_fingerprint(L) = _get_fingerprint(FoldLine(L))

----------------------------------------------------------------------------
(* Properties of repeated calls of process() (checked under SpecCalls)     *)

\* the report a call of process() on a new PostProcessor with the same
\* client returns for the argument process_input when the client does what
\* llm holds
ReportOfThisCall ==
    LET a == _stage_a_normalize(process_input)
        b == _stage_b_spelling(a.text)
        c == _stage_c_deduplicate(b.text)
        d == IF llm = None
             THEN [text |-> c.text, corrections |-> <<>>, raised |-> FALSE]
             ELSE _stage_d_semantic_fix(gpt52_client, c.text, llm[1])
    IN  _stage_e_validate(d.text,
            [PostProcessReport EXCEPT
                !.stage_e_numbers_before = _extract_numbers(process_input),
                !.stage_e_medical_terms_before =
                    _extract_medical_terms(process_input),
                !.stage_a_changes = a.changes,
                !.stage_b_replacements = b.replacements,
                !.stage_c_duplicates_removed = Len(c.duplicate_lines),
                !.stage_c_duplicate_lines = c.duplicate_lines,
                !.stage_d_corrections = d.corrections])

\* C19: the report a call of process() returns holds what this call alone
\* produced, whatever calls came before on the same PostProcessor; and a
\* report returned by a call is the same at every later moment as it was
\* when it was returned.
C19_ReportFreshPerCall ==
    /\ ppc = "done" => report = ReportOfThisCall
    /\ \A k \in 1..Len(returned) : returned[k].now = returned[k].at_return

\* C19 witness: a second call has returned a report with a removed
\* duplicate after a first call that returned a report with a stage A
\* change, and the two reports are different objects.
C19_Witness ==
    /\ ppc = "done"
    /\ Len(returned) = 2
    /\ returned[1].id # returned[2].id
    /\ returned[1].at_return.stage_a_changes # <<>>
    /\ returned[2].now = report
    /\ report.stage_c_duplicate_lines # <<>>
    /\ report.stage_a_changes = <<>>

(* Properties of the summary generator                                     *)

\* the names of the substance that group i of MEDICATION_EQUIVALENCES names:
\* the names of every group that shares a name with it
NamesOfSubstance(i) ==
    UNION {MEDICATION_EQUIVALENCES[j] : j \in
              {j \in 1..Len(MEDICATION_EQUIVALENCES) :
                  MEDICATION_EQUIVALENCES[j] \cap MEDICATION_EQUIVALENCES[i] # {}}}

\* the names that occur in t, as a case-insensitive substring
Mentioned(names, t) == {name \in names : InText(Lower(name), Lower(t))}

\* the names of the k-th reported group
ReportedNames(rep, k) == Range(rep.deterministic_duplicate_groups[k])

\* C15: after the deterministic checks of a first call, every substance of
\* which the summary holds two or more names has exactly one reported group,
\* and that group holds all of its names found in the summary; a substance
\* with fewer than two names in the summary has no group.
C15_OneGroupPerSubstance ==
    spc = "validate" =>
        \A i \in 1..Len(MEDICATION_EQUIVALENCES) :
            LET found == Mentioned(NamesOfSubstance(i), raw_summary)
                mine  == {k \in 1..Len(sreport.deterministic_duplicate_groups) :
                             ReportedNames(sreport, k) \subseteq NamesOfSubstance(i)}
            IN  IF Cardinality(found) >= 2
                THEN /\ Cardinality(mine) = 1
                     /\ \A k \in mine : ReportedNames(sreport, k) = found
                ELSE mine = {}

\* the matches of the dosage pattern in the summary whose drug token, in
\* lower case, is a key of DOSAGE_RANGES
KnownDrug(m) == \E k \in 1..Len(DOSAGE_RANGES) : DOSAGE_RANGES[k][1] = Lower(m.drug)

KnownDosages(summary) == SelectSeq(FindDosages(summary, 0), KnownDrug)

\* the stated dose in thousandths of a mg, for a dose of at most three
\* digits after the point
DoseThousandths(dose) ==
    ToNat(DoseDigits(dose)) * Pow10(3 - FractionDigits(dose))

\* the dose is below half of the minimum or above one and a half times the
\* maximum of the range of its drug
OutOfRange(m) ==
    \E k \in 1..Len(DOSAGE_RANGES) :
        /\ DOSAGE_RANGES[k][1] = Lower(m.drug)
        /\ \/ 2 * DoseThousandths(m.dose) < DOSAGE_RANGES[k][2]
           \/ 2 * DoseThousandths(m.dose) > 3 * DOSAGE_RANGES[k][3]

Ramipril(dose) == <<"R", "a", "m", "i", "p", "r", "i", "l", " ">> \o dose \o <<" ", "m", "g">>

\* C16: after the deterministic checks of a first call the dosage warnings
\* are, in order, one for each match of a known drug whose dose is below
\* half of the range minimum or above one and a half times the range
\* maximum, and each names the drug and the dose; a dose at either boundary
\* gets no warning: Ramipril 10 mg and 15 mg give none, Ramipril 16 mg one.
C16_DosageBoundary ==
    spc = "validate" =>
        LET flagged  == SelectSeq(KnownDosages(raw_summary), OutOfRange)
            warnings == sreport.deterministic_dosage_warnings
        IN  /\ Len(warnings) = Len(flagged)
            /\ \A k \in 1..Len(flagged) :
                  StartsWith(warnings[k],
                             flagged[k].drug \o <<" ">> \o flagged[k].dose
                             \o <<" ", "m", "g", " ">>)
            /\ raw_summary = Ramipril(<<"1", "0">>) => warnings = <<>>
            /\ raw_summary = Ramipril(<<"1", "5">>) => warnings = <<>>
            /\ raw_summary = Ramipril(<<"1", "6">>) => Len(warnings) = 1

\* a summary with a dose at the upper boundary and a dose above it has got
\* the one warning, for the dose above it
C16_Witness ==
    /\ spc = "validate"
    /\ raw_summary = Ramipril(<<"1", "5">>) \o <<"\n">> \o Ramipril(<<"1", "6">>)
    /\ Len(KnownDosages(raw_summary)) = 2
    /\ Len(sreport.deterministic_dosage_warnings) = 1
    /\ StartsWith(sreport.deterministic_dosage_warnings[1], Ramipril(<<"1", "6">>))

\* the suspicious dosages of the report that no deterministic dosage
\* warning already states
OwnSuspicious(rep) ==
    {k \in 1..Len(rep.suspicious_dosages) :
        ~InText(rep.suspicious_dosages[k], ListRepr(rep.deterministic_dosage_warnings))}

\* the number of findings the report holds for the warnings section
FindingCount(rep) ==
    Len(rep.hallucinated_medications)
    + Len(rep.deterministic_duplicate_groups)
    + Len(rep.deterministic_dosage_warnings)
    + Cardinality(OwnSuspicious(rep))
    + Len(rep.fabricated_info)
    + Len(rep.unrecognized_medications)
    + Len(rep.unrecognized_conditions)
    + Len(rep.misclassified_symptoms)
    + (IF rep.chief_complaint_ok THEN 0 ELSE 1)

\* the lines of the final summary after the text handed to _inject_warnings
AppendedLines == SplitLines(DropN(final_summary, Len(corrected_summary)))

\* C17: the text returned by _inject_warnings starts with the summary it
\* was given, unmodified; it is that summary when the report holds no
\* finding, and otherwise goes on with two blank lines, the header, a blank
\* line and one bullet line per finding, where the bullets of the duplicate
\* groups name every name of their group and the bullets of the dosage
\* warnings are those warnings.
C17_WarningsOnlyAppended ==
    spc = "done" =>
        LET n      == FindingCount(sreport)
            HeaderLines == 5
            first  == Len(sreport.hallucinated_medications)
            groups == sreport.deterministic_duplicate_groups
            doses  == sreport.deterministic_dosage_warnings
        IN  /\ FirstN(final_summary, Len(corrected_summary)) = corrected_summary
            /\ n = 0 => final_summary = corrected_summary
            /\ n > 0 =>
                  /\ Len(AppendedLines) = HeaderLines + n
                  /\ \A k \in {1, 2, 3, 5} : AppendedLines[k] = <<>>
                  /\ AppendedLines[4] = WarningsHeader
                  /\ \A k \in 1..n :
                        StartsWith(AppendedLines[HeaderLines + k], Bullet \o WarningSign)
                  /\ \A i \in 1..Len(groups) : \A j \in 1..Len(groups[i]) :
                        InText(groups[i][j], AppendedLines[HeaderLines + first + i])
                  /\ \A i \in 1..Len(doses) :
                        AppendedLines[HeaderLines + first + Len(groups) + i]
                            = Bullet \o WarningSign \o doses[i]

\* a summary with a duplicate group and a dosage out of range, for which the
\* validation named a medication, has been returned with its warnings
C17_Witness ==
    /\ spc = "done"
    /\ corrected_summary # <<>>
    /\ Len(sreport.hallucinated_medications) = 1
    /\ Len(sreport.deterministic_duplicate_groups) = 1
    /\ Len(sreport.deterministic_dosage_warnings) = 1
    /\ Len(sreport.suspicious_dosages) > Cardinality(OwnSuspicious(sreport))
    /\ Len(final_summary) > Len(corrected_summary)

\* the validation call of this call of generate() raised or gave no
\* parsable JSON object
ValidationCallFailed ==
    /\ client_answers.validate # None
    /\ client_answers.validate[1].kind \in {"raises", "no_content", "no_json", "bad_json"}

\* C18: once the validation call has been answered, generate() does not
\* raise; when it returns after a validation call that raised or gave no
\* parsable JSON, the report has validation_passed = FALSE; and a returned
\* report with validation_passed = TRUE has no hallucinated medication, no
\* fabricated info, chief_complaint_ok and a faithfulness score of 7 or more.
C18_FailedValidationNotPassed ==
    /\ client_answers.validate # None => spc # "raised"
    /\ spc = "done" /\ ValidationCallFailed => ~sreport.validation_passed
    /\ spc = "done" /\ sreport.validation_passed =>
          /\ sreport.hallucinated_medications = <<>>
          /\ sreport.fabricated_info = <<>>
          /\ sreport.chief_complaint_ok
          /\ sreport.faithfulness_score >= 7

\* C20: the report a call of generate() returns holds the deterministic
\* duplicate groups, duplicate pairs and dosage warnings of the summary
\* drafted in that call and no others.
C20_ReportOfThisCall ==
    spc = "done" =>
        /\ sreport.deterministic_duplicate_groups
               \in _check_medication_duplicates(raw_summary)
        /\ sreport.deterministic_duplicate_pairs
               = PairsOfGroups(sreport.deterministic_duplicate_groups)
        /\ sreport.deterministic_dosage_warnings
               = _check_dosage_plausibility(raw_summary)

(* Properties of the audio chunking (checked under SpecSplit)              *)

\* what split_audio has returned
ChunksCoverRecording ==
    cpc = "done" =>
        /\ Len(chunks) >= 1
        /\ duration_ms <= MAX_CHUNK_DURATION_MS
               => chunks = <<<<0, duration_ms, TRUE>>>>
        /\ duration_ms > MAX_CHUNK_DURATION_MS =>
              /\ chunks[1][1] = 0
              /\ \A k \in 1..Len(chunks) :
                    /\ chunks[k][1] < chunks[k][2]
                    /\ chunks[k][2] - chunks[k][1] <= MAX_CHUNK_DURATION_MS
                    /\ chunks[k][3] <=> (k = Len(chunks))
              /\ \A k \in 1..(Len(chunks) - 1) :
                    chunks[k + 1][1] = chunks[k][2] - OVERLAP_DURATION_MS
              /\ chunks[Len(chunks)][2] = duration_ms

\* C30: split_audio returns for every duration; for a duration of at most
\* four minutes it returns the one chunk (0, duration, True); otherwise
\* every chunk is at most four minutes long, the first starts at 0, each
\* next one starts 30 s before the end of the one before it, the last ends
\* at the duration, and the last chunk alone has is_last = True.
C30_ChunkingCoversAndTerminates ==
    [](ChunksCoverRecording) /\ <>(cpc = "done")

\* a recording cut into three or more chunks, the last one shorter than
\* four minutes
C30_Witness ==
    /\ cpc = "done"
    /\ Len(chunks) >= 3
    /\ chunks[Len(chunks)][2] - chunks[Len(chunks)][1] < MAX_CHUNK_DURATION_MS
    /\ chunks[Len(chunks)][3]

----------------------------------------------------------------------------
(* Properties of the speech-to-text call                                    *)

\* retry_delay after n waits: 10 s doubled n times, at most 120 s
RECURSIVE BackoffAfter(_)
BackoffAfter(n) ==
    IF n = 0 THEN FirstRetryDelay
    ELSE Min2(2 * BackoffAfter(n - 1), RetryDelayCap)

\* what becomes of a response: 200 goes on to the parsing, 429 and 5xx are
\* followed by a wait and another attempt unless the response is the 5th,
\* which raises RuntimeError, and any other status raises RuntimeError
ResponseHandled ==
    rpc = "check" =>
        LET r == resp[1]
        IN  IF r.status_code = 200
            THEN rpc' = "parse" /\ posts' = posts
            ELSE IF r.status_code = 429 \/ r.status_code \in 500..599
            THEN IF posts = MAX_RETRIES
                 THEN rpc' = "RuntimeError"
                 ELSE /\ rpc' = "post"
                      /\ Len(waits') = Len(waits) + 1
                      /\ attempt' = attempt + 1
            ELSE rpc' = "RuntimeError"

BoundedBackoff ==
    /\ posts <= MAX_RETRIES
    /\ rpc \in {"post", "check"} =>
           /\ posts \in {attempt - 1, attempt}
           /\ retry_delay = BackoffAfter(Len(waits))
           /\ retry_delay <= RetryDelayCap

\* C29: transcribe_with_timestamps makes at most 5 POST attempts; a 200
\* response ends the loop and is parsed, each 429 or 5xx response is followed
\* by a wait and another attempt until the 5th such response raises
\* RuntimeError, any other status raises RuntimeError at once, the backoff
\* delay starts at 10 s, doubles after each retry and never exceeds 120 s,
\* and the call always ends in a parsed result or an error
C29_BoundedRetry ==
    /\ [][ResponseHandled]_vars
    /\ [](BoundedBackoff)
    /\ <>(SttEnded)

----------------------------------------------------------------------------
(* Properties of the pipeline trace                                         *)

\* C22: PipelineTrace.load of the file written by save has the same run_id
\* and created_at and the same steps in the same order, each with the same
\* step_id, step_name, text, chunk_index, timestamp, duration_seconds and
\* metadata; to_dict reports total_steps equal to the number of add_step
\* calls and num_chunks equal to the number of distinct non-null chunk
\* indices
C22_TraceRoundTrip ==
    /\ tpc = "loaded" =>
           /\ loaded[1].run_id = PyStr(run_id)
           /\ loaded[1].created_at = PyStr(created_at)
           /\ Len(loaded[1].steps) = Len(steps)
           /\ \A k \in 1..Len(steps) : loaded[1].steps[k] = steps[k]
    /\ tpc \in {"recording", "saved", "loaded"} =>
           LET d == to_dict(run_id, created_at, steps)
           IN  /\ DictGet(d, "total_steps", PyNone) = PyInt(add_step_calls)
               /\ DictGet(d, "num_chunks", PyNone) =
                      PyInt(Cardinality(
                          {c \in {PyInt(0), PyInt(1)} :
                              \E k \in 1..Len(steps) :
                                  steps[k].chunk_index = c}))

----------------------------------------------------------------------------
(* Properties of the stage order of process()                               *)

\* the position after each position of process()
StageOrder ==
    ppc' # ppc =>
        <<ppc, ppc'>> \in {<<"start", "A">>, <<"A", "B">>, <<"B", "C">>,
                           <<"C", "D">>, <<"D", "E">>, <<"E", "done">>}

\* the snapshots this call has appended to the trace
Appended ==
    IF steps # <<>> /\ steps[1] = MergedSnapshot THEN Tail(steps) ELSE steps

\* the snapshots of a whole call: the stage outputs of process_input, with
\* the rewrite among them if it ran
ExpectedSnapshots ==
    LET a == _stage_a_normalize(process_input).text
        b == _stage_b_spelling(a).text
        c == _stage_c_deduplicate(b).text
        d == IF llm # None
             THEN _stage_d_semantic_fix(gpt52_client, c, llm[1]).text ELSE c
    IN  <<<<"step_5a_normalized", a>>, <<"step_5b_spelling", b>>,
          <<"step_5c_deduplicated", c>>>>
        \o (IF llm # None THEN <<<<"step_5d_semantic", d>>>> ELSE <<>>)
        \o <<<<"step_5e_validated", d>>>>

\* the number of stages that have run at a position
StagesRun ==
    CASE ppc \in {"start", "A"} -> 0
      [] ppc = "B" -> 1
      [] ppc = "C" -> 2
      [] ppc = "D" -> 3
      [] ppc = "E" -> IF llm # None THEN 4 ELSE 3
      [] ppc = "done" -> IF llm # None THEN 5 ELSE 4

StagesTraced ==
    ppc \in {"start", "A", "B", "C", "D", "E", "done"} =>
        /\ ppc \in {"E", "done"} =>
               (llm # None <=> (use_llm /\ gpt52_client # "none"))
        /\ ppc \in {"start", "A", "B", "C", "D"} => llm = None
        /\ StagesRun > 0 => current_text = ExpectedSnapshots[StagesRun][2]
        /\ llm # None =>
               stage_d_input = ExpectedSnapshots[3][2]
        /\ trace_given =>
               /\ Len(Appended) = StagesRun
               /\ \A k \in 1..Len(Appended) :
                      /\ Appended[k].step_id.s = ExpectedSnapshots[k][1]
                      /\ Appended[k].text.s = ExpectedSnapshots[k][2]
        /\ ~trace_given => steps = <<>>

\* C23: the stages run in the order Normalizer, Spelling Corrector,
\* Duplicate Collapser, Constrained Rewriter Gate, Output Validator, each on
\* the output of the stage before; the rewrite runs if and only if use_llm
\* is true and a client was supplied; with a trace, one snapshot per stage
\* that ran is appended in that order (step_5a, 5b, 5c, [5d], 5e), each
\* with that stage's output, and step_5e holds the returned text
C23_StageOrderAndSnapshots ==
    /\ [][StageOrder]_vars
    /\ [](StagesTraced)

\* a call with a trace and the rewrite has returned a text that differs
\* from its input, and the trace holds the five snapshots after the one of
\* the merge
C23_Witness ==
    /\ ppc = "done"
    /\ trace_given
    /\ llm # None
    /\ Len(steps) = 6
    /\ steps[6].step_id.s = "step_5e_validated"
    /\ steps[6].text.s = current_text
    /\ current_text # process_input
    /\ steps[3].text.s # steps[2].text.s

----------------------------------------------------------------------------
(* Properties of process() called from two threads                          *)

\* the report a call of process() on its own makes of the input of call t
OwnReport(t) ==
    LET client == processors[calls[t].self].gpt52_client
        a == _stage_a_normalize(calls[t].input)
        b == _stage_b_spelling(a.text)
        c == _stage_c_deduplicate(b.text)
        d == IF calls[t].llm # None
             THEN _stage_d_semantic_fix(client, c.text, calls[t].llm[1])
             ELSE [text |-> c.text, corrections |-> <<>>, raised |-> FALSE]
    IN  _stage_e_validate(d.text,
            [PostProcessReport EXCEPT
                !.stage_e_numbers_before = _extract_numbers(calls[t].input),
                !.stage_e_medical_terms_before =
                    _extract_medical_terms(calls[t].input),
                !.stage_a_changes = a.changes,
                !.stage_b_replacements = b.replacements,
                !.stage_c_duplicates_removed = Len(c.duplicate_lines),
                !.stage_c_duplicate_lines = c.duplicate_lines,
                !.stage_d_corrections = d.corrections])

\* C21: when two process() invocations run concurrently with their stages
\* interleaved, on two PostProcessor objects or on the same one, the report
\* each returns holds the audit entries and the validation result of its own
\* text and none of the other's
C21_ReportsNotShared ==
    (\A t \in Threads : calls # <<>> /\ calls[t].pc = "done") =>
        \A t \in Threads : heap[calls[t].returned] = OwnReport(t)

====
